---- MODULE Spec2Model ----
(***************************************************************************)
(* Model of the YAML intelligence bundle embedded in                       *)
(* src/src/format/html/format-html-notebook-preview.ts (lines 612-1388):   *)
(* the validator cache and per-schema queue (validator-queue.js), the      *)
(* reparse search (parsing.js), the schema navigator (schemas.js), the     *)
(* annotated-tree builder and cursor locators, and automation.js.          *)
(*                                                                         *)
(* The specifications share the module, one per component:                 *)
(*   SpecQueue / SpecQueueFair  requests against withValidator             *)
(*   SpecParse                  attemptParsesAtLine as a generator         *)
(*   SpecNav                    navigateSchema applied to schema x path    *)
(*   SpecGen                    completions() on candidates x word         *)
(*   SpecLoc                    buildAnnotated and the two cursor locators *)
(*   SpecReq                    one request through getAutomation          *)
(***************************************************************************)
EXTENDS Integers, Sequences, FiniteSets, TLC

VARIABLES
    yamlValidators,   \* validator-queue.js: var yamlValidators = {}
    validatorQueues,  \* validator-queue.js: var validatorQueues = {}
    constructed,      \* log of every `new core.YAMLSchema(schema)` executed
    enqueued,         \* the requests in the order of their queue.enqueue calls
    reqs,             \* the requests issued so far and where each one stands
    nRequested        \* number of requests issued (request ids are 1..nRequested)

qvars == <<yamlValidators, validatorQueues, constructed, enqueued, reqs, nRequested>>

VARIABLES
    code,           \* attemptParsesAtLine: context.code, as its lines
    position,       \* attemptParsesAtLine: context.position {row, column}
    parserClean,    \* the texts the external parser parses without an ERROR root
    pc,             \* where the generator stands: "start", "loop", "done", "closed"
    currentColumn,  \* attemptParsesAtLine: let currentColumn
    deletions,      \* attemptParsesAtLine: let deletions
    yielded,        \* the results yielded by this invocation, in order
    parseCalls,     \* number of parser.parse calls made by this invocation
    invocation,     \* number of the current invocation on this context
    prevYielded     \* what the previous invocation yielded, once it ran to its end

pvars == <<code, position, parserClean, pc, currentColumn, deletions, yielded,
           parseCalls, invocation, prevYielded>>

VARIABLES
    navSchema,  \* navigateSchema: the schema argument
    navPath,    \* navigateSchema: the path argument
    navResult   \* what the call produced: the nodes returned or the error thrown

nvars == <<navSchema, navPath, navResult>>

VARIABLES
    gen,  \* completions(): the candidates and word it is given, and its result
    loc,  \* the locators: the parsed document, the cursor, and both paths
    req,  \* one editor request through getAutomation: its input and outcome
    walk, \* locateFromIndentation: the indentation tree and the walk's lineNo, path
    ts    \* getTreeSitter: _parser, the parsers constructed, each caller's position

vars == <<qvars, pvars, nvars, gen, loc, req, walk, ts>>

\* What each component's steps leave alone: the other components' state.
outsideQueue == <<ts, pvars, nvars, gen, loc, req, walk>>
outsideParse == <<ts, qvars, nvars, gen, loc, req, walk>>
outsideNav == <<ts, qvars, pvars, gen, loc, req, walk>>
outsideGen == <<ts, qvars, pvars, nvars, loc, req, walk>>
outsideLoc == <<ts, qvars, pvars, nvars, gen, req, walk>>
outsideReq == <<ts, qvars, pvars, nvars, gen, loc, walk>>
outsideWalk == <<qvars, pvars, nvars, gen, loc, req, ts>>
outsideTs == <<qvars, pvars, nvars, gen, loc, req, walk>>

(***************************************************************************)
(* Bounds                                                                  *)
(***************************************************************************)
MaxReq == 2
MaxLines == 2
MaxLineLen == 2
MaxCol == 3
MaxInvocations == 2
MaxPathLen == 2
MaxCandidates == 3
MaxWalkLines == 3
MaxCallers == 3

(***************************************************************************)
(* validator-queue.js                                                      *)
(***************************************************************************)

\* The value of context.schemaName when the context carries none: the
\* property key JavaScript derives from `undefined`.
Undefined == "undefined"

SchemaNames == {"front-matter", "config", Undefined}

Languages == {"r", "python"}

LanguageSchema(language) == <<"languages", language>>

Schemas == {<<"front-matter">>, <<"config">>} \cup {LanguageSchema(l) : l \in Languages}

\* getAutomation: the yaml file type picks schema and schemaName from the
\* file extension.
YamlContext(extension) ==
    [schema     |-> IF extension = "qmd" THEN <<"front-matter">> ELSE <<"config">>,
     schemaName |-> IF extension = "qmd" THEN "front-matter" ELSE "config"]

\* automationFromGoodParseScript: the context handed on holds line, code,
\* commentPrefix, position and schema, and no schemaName.
ScriptContext(language) ==
    [schema |-> LanguageSchema(language), schemaName |-> Undefined]

\* automationFromGoodParseMarkdown, validation branch: a front-matter cell is
\* handed {code, schema}, without a schemaName.
MarkdownValidationContext ==
    [schema |-> <<"front-matter">>, schemaName |-> Undefined]

\* automationFromGoodParseMarkdown, completions branch: a front-matter cell.
MarkdownCompletionContext ==
    [schema |-> <<"front-matter">>, schemaName |-> "front-matter"]

ValidationContexts ==
    {YamlContext(e) : e \in {"qmd", "yml"}}
        \cup {ScriptContext(l) : l \in Languages}
        \cup {MarkdownValidationContext}

CompletionContexts ==
    {YamlContext(e) : e \in {"qmd", "yml"}}
        \cup {ScriptContext(l) : l \in Languages}
        \cup {MarkdownCompletionContext}

NoValidator == [id |-> 0, schema |-> <<"none">>]

\* new core.YAMLSchema(schema): a fresh object, told apart by its id.
NewYAMLSchema(schema) == [id |-> Len(constructed) + 1, schema |-> schema]

GetValidatorNoCache(validators, context) ==
    [validator |-> NewYAMLSchema(context.schema),
     validators |-> [validators EXCEPT ![context.schemaName] = NewYAMLSchema(context.schema)],
     isNew |-> TRUE]

\* getValidator(context): the cached validator of context.schemaName, or a
\* new one built from context.schema and stored under that name.
GetValidator(validators, context) ==
    IF validators[context.schemaName] # NoValidator
    THEN [validator |-> validators[context.schemaName],
          validators |-> validators,
          isNew |-> FALSE]
    ELSE [validator |-> NewYAMLSchema(context.schema),
          validators |-> [validators EXCEPT ![context.schemaName] = NewYAMLSchema(context.schema)],
          isNew |-> TRUE]

\* core.PromiseQueue: pending items in arrival order, and the item whose
\* promise is being awaited (0: none).
NoQueue == [defined |-> FALSE, pending |-> <<>>, current |-> 0]
NewPromiseQueue == [defined |-> TRUE, pending |-> <<>>, current |-> 0]

QueueKeyShared(context) == Undefined

\* withValidator: const { schemaName } = context
QueueKey(context) == context.schemaName

QueueForFresh(queues, name) == NewPromiseQueue

\* withValidator: the queue of the schema name, created on first use.
QueueFor(queues, name) ==
    IF queues[name] = NoQueue THEN NewPromiseQueue ELSE queues[name]

\* PromiseQueue.enqueue pushes the item and calls dequeue; dequeue starts the
\* head item when nothing is running.
PromiseQueueEnqueue(q, r) ==
    IF q.current = 0 /\ q.pending = <<>>
    THEN [q EXCEPT !.current = r]
    ELSE [q EXCEPT !.pending = Append(@, r)]

PromiseQueueSettleForgets(q) == [q EXCEPT !.current = 0]

\* the then/catch handler of the running item: running = false, settle the
\* item, dequeue the next one.
PromiseQueueSettle(q) ==
    IF q.pending = <<>>
    THEN [q EXCEPT !.current = 0]
    ELSE [q EXCEPT !.current = Head(q.pending), !.pending = Tail(@)]

\* Where a request stops for good, if anywhere: "schemas" when its
\* getSchemas fetch never answers, "parser" when the getTreeSitter it awaits
\* never resolves.
Stalls == {"none", "schemas", "parser"}

NewRequest ==
    [st |-> "new", kind |-> "none", schemaName |-> Undefined, schema |-> <<"none">>,
     stalls |-> "none", validator |-> NoValidator, outcome |-> "none", result |-> "none"]

\* The queued callback up to its first suspension: getValidator(context),
\* then fun(validator) runs to `await getTreeSitter()`.
StartItem(rs, r, validators) ==
    LET got == GetValidator(validators, [schema |-> rs[r].schema, schemaName |-> rs[r].schemaName])
    IN  [reqs |-> [rs EXCEPT ![r].st = "running", ![r].validator = got.validator],
         validators |-> got.validators,
         log |-> IF got.isNew
                 THEN Append(constructed, [schemaName |-> rs[r].schemaName, id |-> got.validator.id])
                 ELSE constructed]

QInit ==
    /\ yamlValidators = [n \in SchemaNames |-> NoValidator]
    /\ validatorQueues = [n \in SchemaNames |-> NoQueue]
    /\ constructed = <<>>
    /\ enqueued = <<>>
    /\ reqs = [r \in 1..MaxReq |-> NewRequest]
    /\ nRequested = 0

\* QuartoYamlEditorTools.getLint / getCompletions -> getAutomation: the call
\* runs to its first suspension, `await getSchemas()`. The context the request
\* will reach the YAML entry point with is fixed by the call's arguments.
Issue(kind, context, stalls) ==
    /\ nRequested < MaxReq
    /\ nRequested' = nRequested + 1
    /\ reqs' = [reqs EXCEPT ![nRequested + 1] =
                    [NewRequest EXCEPT !.st = "issued",
                                       !.kind = kind,
                                       !.schemaName = context.schemaName,
                                       !.schema = context.schema,
                                       !.stalls = stalls]]
    /\ UNCHANGED <<yamlValidators, validatorQueues, constructed, enqueued>>
    /\ UNCHANGED outsideQueue

\* The schemas have arrived: the dispatch reaches
\* validationFromGoodParseYAML(context) -> withValidator, which runs to its
\* first suspension: the queue is looked up or created, the callback is
\* enqueued, and an idle queue starts it at once.
EnterValidation(r) ==
    /\ reqs[r].st = "issued"
    /\ reqs[r].kind = "validation"
    /\ reqs[r].stalls # "schemas"
    /\ LET name == QueueKey(reqs[r])
           q == PromiseQueueEnqueue(QueueFor(validatorQueues, name), r)
           rs == [reqs EXCEPT ![r].st = "queued"]
           started == StartItem(rs, r, yamlValidators)
       IN  /\ validatorQueues' = [validatorQueues EXCEPT ![name] = q]
           /\ enqueued' = Append(enqueued, r)
           /\ IF q.current = r
              THEN /\ reqs' = started.reqs
                   /\ yamlValidators' = started.validators
                   /\ constructed' = started.log
              ELSE /\ reqs' = rs
                   /\ UNCHANGED <<yamlValidators, constructed>>
    /\ UNCHANGED nRequested
    /\ UNCHANGED outsideQueue

\* The schemas have arrived: the dispatch reaches
\* completionsFromGoodParseYAML(context), which runs to
\* `await getTreeSitter()`; withValidator is not called on this path.
EnterCompletions(r) ==
    /\ reqs[r].st = "issued"
    /\ reqs[r].kind = "completions"
    /\ reqs[r].stalls # "schemas"
    /\ reqs' = [reqs EXCEPT ![r].st = "running"]
    /\ UNCHANGED <<yamlValidators, validatorQueues, constructed, enqueued, nRequested>>
    /\ UNCHANGED outsideQueue

\* The function of a running request settles: it returns or it throws. For a
\* validation request the queued callback's `finally { return void 0 }` then
\* settles the callback with undefined either way.
FinishFun(r, outcome) ==
    /\ reqs[r].st = "running"
    /\ reqs[r].stalls # "parser"
    /\ reqs' = [reqs EXCEPT ![r].outcome = outcome,
                            ![r].st = IF reqs[r].kind = "validation" THEN "finished" ELSE "done",
                            ![r].result = IF reqs[r].kind = "validation" THEN "undefined"
                                          ELSE outcome]
    /\ UNCHANGED <<yamlValidators, validatorQueues, constructed, enqueued, nRequested>>
    /\ UNCHANGED outsideQueue

\* PromiseQueue's handler for the settled item of queue `name`: the item is
\* resolved with the callback's value (undefined, whatever the function's
\* outcome was) and the next pending item is started.
QueueRelease(name) ==
    /\ validatorQueues[name].current # 0
    /\ reqs[validatorQueues[name].current].st = "finished"
    /\ LET q == PromiseQueueSettle(validatorQueues[name])
           rs == [reqs EXCEPT ![validatorQueues[name].current].st = "done"]
           started == StartItem(rs, q.current, yamlValidators)
       IN  /\ validatorQueues' = [validatorQueues EXCEPT ![name] = q]
           /\ IF q.current # 0
              THEN /\ reqs' = started.reqs
                   /\ yamlValidators' = started.validators
                   /\ constructed' = started.log
              ELSE /\ reqs' = rs
                   /\ UNCHANGED <<yamlValidators, constructed>>
    /\ UNCHANGED <<enqueued, nRequested>>
    /\ UNCHANGED outsideQueue

QNext ==
    \/ \E c \in ValidationContexts, s \in Stalls : Issue("validation", c, s)
    \/ \E c \in CompletionContexts, s \in Stalls : Issue("completions", c, s)
    \/ \E r \in 1..MaxReq : EnterValidation(r)
    \/ \E r \in 1..MaxReq : EnterCompletions(r)
    \/ \E r \in 1..MaxReq, o \in {"returned", "threw"} : FinishFun(r, o)
    \/ \E n \in SchemaNames : QueueRelease(n)

(***************************************************************************)
(* parsing.js: attemptParsesAtLine                                         *)
(***************************************************************************)
Chars == {"a"}

LinesOfLength(n) == [1..n -> Chars]
AllLines == UNION {LinesOfLength(n) : n \in 0..MaxLineLen}
Documents == UNION {[1..n -> AllLines] : n \in 1..MaxLines}

Min(a, b) == IF a < b THEN a ELSE b
Max(a, b) == IF a > b THEN a ELSE b

\* String.prototype.substring(0, n): n is clamped to [0, length].
Substring0(line, n) == SubSeq(line, 1, Max(0, Min(n, Len(line))))

NewCodeWithoutRest(codeLines, row, column) ==
    (IF row > 0 THEN SubSeq(codeLines, 1, row) ELSE <<>>)
        \o <<Substring0(codeLines[row + 1], column)>>

\* The chunks handed to core2.mappedString: the lines before the cursor's row
\* (only when row > 0), the truncated current line, the lines after the row
\* (only when row + 1 < codeLines.length). Rows are 0-based.
NewCode(codeLines, row, column) ==
    (IF row > 0 THEN SubSeq(codeLines, 1, row) ELSE <<>>)
        \o <<Substring0(codeLines[row + 1], column)>>
        \o (IF row + 1 < Len(codeLines) THEN SubSeq(codeLines, row + 2, Len(codeLines)) ELSE <<>>)

\* parser.parse(text).rootNode.type !== "ERROR"
ParseIsClean(text) == text \in parserClean

LoopContinuesThroughZero(column) == column >= 0

LoopStopsAtOne(column) == column > 1

\* while (currentColumn > 0)
LoopContinues(column) == column > 0

\* if (tree.rootNode.type !== "ERROR") yield ...
Yields(clean) == clean

\* Every text the search can hand to the parser for a document and a row.
CandidateTexts(doc, row) ==
    {doc} \cup {NewCode(doc, row, k) : k \in 0..Len(doc[row + 1])}

NoPrevious == [ranToEnd |-> FALSE, yielded |-> <<>>]

PInit ==
    /\ code \in Documents
    /\ position \in [row : 0..(MaxLines - 1), column : 0..MaxCol]
    /\ position.row < Len(code)
    /\ parserClean \in SUBSET CandidateTexts(code, position.row)
    /\ pc = "start"
    /\ currentColumn = 0
    /\ deletions = 0
    /\ yielded = <<>>
    /\ parseCalls = 0
    /\ invocation = 1
    /\ prevYielded = NoPrevious

PIdle ==
    /\ code = <<>>
    /\ position = [row |-> 0, column |-> 0]
    /\ parserClean = {}
    /\ pc = "idle"
    /\ currentColumn = 0
    /\ deletions = 0
    /\ yielded = <<>>
    /\ parseCalls = 0
    /\ invocation = 0
    /\ prevYielded = NoPrevious

\* From the call to the loop head: the full parse of the untouched text, its
\* yield when clean, then the set-up of the loop.
ParseFull ==
    /\ pc = "start"
    /\ parseCalls' = parseCalls + 1
    /\ yielded' = IF Yields(ParseIsClean(code))
                  THEN Append(yielded, [code |-> code, deletions |-> 0])
                  ELSE yielded
    /\ currentColumn' = position.column
    /\ deletions' = 0
    /\ pc' = "loop"
    /\ UNCHANGED <<code, position, parserClean, invocation, prevYielded>>
    /\ UNCHANGED outsideParse

\* One turn of the loop: one more character dropped, the candidate built and
\* parsed, and yielded when clean.
ParseTruncated ==
    /\ pc = "loop"
    /\ LoopContinues(currentColumn)
    /\ currentColumn' = currentColumn - 1
    /\ deletions' = deletions + 1
    /\ parseCalls' = parseCalls + 1
    /\ LET newCode == NewCode(code, position.row, currentColumn - 1)
       IN  yielded' = IF Yields(ParseIsClean(newCode))
                      THEN Append(yielded, [code |-> newCode, deletions |-> deletions + 1])
                      ELSE yielded
    /\ UNCHANGED <<code, position, parserClean, pc, invocation, prevYielded>>
    /\ UNCHANGED outsideParse

\* The loop condition fails: the generator returns.
ParseEnd ==
    /\ pc = "loop"
    /\ ~LoopContinues(currentColumn)
    /\ pc' = "done"
    /\ UNCHANGED <<code, position, parserClean, currentColumn, deletions, yielded,
                   parseCalls, invocation, prevYielded>>
    /\ UNCHANGED outsideParse

\* The consumer leaves its for-of loop after a result (a `return` in the loop
\* body): the generator is closed where it stands.
ConsumerReturns ==
    /\ pc = "loop"
    /\ yielded # <<>>
    /\ pc' = "closed"
    /\ UNCHANGED <<code, position, parserClean, currentColumn, deletions, yielded,
                   parseCalls, invocation, prevYielded>>
    /\ UNCHANGED outsideParse

\* attemptParsesAtLine is called again on the same context: all of the
\* generator's state is local to the call.
InvokeAgain ==
    /\ pc \in {"done", "closed"}
    /\ invocation < MaxInvocations
    /\ invocation' = invocation + 1
    /\ prevYielded' = IF pc = "done" THEN [ranToEnd |-> TRUE, yielded |-> yielded]
                       ELSE NoPrevious
    /\ pc' = "start"
    /\ currentColumn' = 0
    /\ deletions' = 0
    /\ yielded' = <<>>
    /\ parseCalls' = 0
    /\ UNCHANGED <<code, position, parserClean>>
    /\ UNCHANGED outsideParse

PNext == ParseFull \/ ParseTruncated \/ ParseEnd \/ ConsumerReturns \/ InvokeAgain

(***************************************************************************)
(* schemas.js: navigateSchema                                              *)
(***************************************************************************)

\* A numeric path segment is held as the string JavaScript coerces it to when
\* it is used as a property key or as the argument of startsWith (0 becomes
\* "0").
StrA == "a"
StrB == "b"
StrX == "x"
StrAB == "ab"
Str0 == "0"
StrConstructor == "constructor"

\* A schema node: $id and $ref ("" when absent), the type core3.schemaType
\* reports, properties in own-property order, items (<<>> when undefined), and
\* the branches of anyOf / oneOf / allOf.
SchemaNode(type) ==
    [id |-> "", ref |-> "", type |-> type, properties |-> <<>>, items |-> <<>>, alts |-> <<>>]

StringSchema == SchemaNode("string")
ObjectSchema(props) == [SchemaNode("object") EXCEPT !.properties = props]
ArraySchema(item) == [SchemaNode("array") EXCEPT !.items = <<item>>]
ArrayNoItems == SchemaNode("array")
AnyOf(branches) == [SchemaNode("anyOf") EXCEPT !.alts = branches]
OneOf(branches) == [SchemaNode("oneOf") EXCEPT !.alts = branches]
AllOf(branches) == [SchemaNode("allOf") EXCEPT !.alts = branches]
Ref(target) == [SchemaNode("ref") EXCEPT !.ref = target]
WithId(schema, id) == [schema EXCEPT !.id = id]
Prop(name, schema) == [name |-> name, schema |-> schema]

NoSchema == SchemaNode("undefined")

RefIds == {"A", "B", "missing"}

\* core3.schemaType(subSchema)
SchemaType(schema) == schema.type

IsPrefix(p, str) == Len(p) <= Len(str) /\ SubSeq(str, 1, Len(p)) = p

\* The schema document comes from response.json(): `properties` is a plain
\* object, and a property read on it that finds no own property goes on to
\* Object.prototype. "constructor" stands for the members found there.
ObjectPrototypeMembers == {StrConstructor}

\* What such a read returns: a function object, with no $id and no $ref, of a
\* type navigation has no branch for.
InheritedMember == SchemaNode("function")

\* Object.getOwnPropertyNames(subSchema.properties) includes key
NamesProperty(schema, key) ==
    \E i \in 1..Len(schema.properties) : schema.properties[i].name = key

\* subSchema.properties[key] !== void 0
HasProperty(schema, key) ==
    NamesProperty(schema, key) \/ key \in ObjectPrototypeMembers

\* subSchema.properties[key]
Property(schema, key) ==
    IF NamesProperty(schema, key)
    THEN schema.properties[CHOOSE i \in 1..Len(schema.properties) :
                              schema.properties[i].name = key].schema
    ELSE InheritedMember

NavReturn(nodes, refs, events) ==
    [nodes |-> nodes, refs |-> refs, events |-> events, threw |-> "none"]

NavThrow(what, refs, events) ==
    [nodes |-> <<>>, refs |-> refs, events |-> events, threw |-> what]

\* inner, object branch, when properties[key] is undefined: nothing unless the
\* key is the last segment and a prefix of some property name.
UnmatchedKey(schema, key, isFinal) ==
    IF ~isFinal
    THEN <<>>
    ELSE IF \E i \in 1..Len(schema.properties) : IsPrefix(key, schema.properties[i].name)
         THEN <<schema>>
         ELSE <<>>

AllOfStepEmpty(refs, events) == NavReturn(<<>>, refs, events)

\* inner, allOf branch: throw new Error("Internal error: don't know how to
\* navigate allOf schema :(")
AllOfStep(refs, events) == NavThrow("allOf", refs, events)

RECURSIVE Inner(_, _, _, _, _)

InnerMapNothing(branches, k, index, refs, events, path) == NavReturn(<<>>, refs, events)

RECURSIVE InnerMap(_, _, _, _, _, _)

\* branches.map((ss) => inner(ss, index)), from branch k on: the branches are
\* navigated in order, sharing refs; a throw ends the map.
InnerMap(branches, k, index, refs, events, path) ==
    IF k > Len(branches)
    THEN NavReturn(<<>>, refs, events)
    ELSE LET first == Inner(branches[k], index, refs, events, path)
         IN  IF first.threw # "none"
             THEN first
             ELSE LET rest == InnerMap(branches, k + 1, index, first.refs, first.events, path)
                  IN  IF rest.threw # "none"
                      THEN rest
                      ELSE NavReturn(first.nodes \o rest.nodes, rest.refs, rest.events)

\* inner(subSchema, index). Results are kept flat: the caller's
\* flat(Infinity) makes the nesting of the returned arrays immaterial.
Inner(subSchema, index, refs, events, path) ==
    LET refs1 == IF subSchema.id # "" THEN [refs EXCEPT ![subSchema.id] = subSchema] ELSE refs
    IN  IF subSchema.ref # "" /\ refs1[subSchema.ref] = NoSchema
        THEN NavThrow("ref", refs1, events \cup {"unresolved-ref"})
        ELSE
        LET resolved == IF subSchema.ref # "" THEN refs1[subSchema.ref] ELSE subSchema
            st == SchemaType(resolved)
        IN  IF index = Len(path)
            THEN NavReturn(<<resolved>>, refs1,
                           events \cup (IF st = "allOf" THEN {"allOf-at-path-end"} ELSE {}))
            ELSE
            CASE st = "object" ->
                    IF ~HasProperty(resolved, path[index + 1])
                    THEN NavReturn(UnmatchedKey(resolved, path[index + 1], index = Len(path) - 1),
                                   refs1, events)
                    ELSE Inner(Property(resolved, path[index + 1]), index + 1, refs1, events, path)
              [] st = "array" ->
                    IF resolved.items = <<>>
                    THEN NavReturn(<<>>, refs1, events)
                    ELSE Inner(resolved.items[1], index + 1, refs1, events, path)
              [] st = "anyOf" -> InnerMap(resolved.alts, 1, index, refs1, events, path)
              [] st = "allOf" -> AllOfStep(refs1, events \cup {"allOf-with-path-left"})
              [] st = "oneOf" ->
                    LET all == InnerMap(resolved.alts, 1, index, refs1, events, path)
                    IN  IF all.threw # "none"
                        THEN all
                        ELSE IF Len(all.nodes) # 1
                             THEN NavReturn(<<>>, all.refs, all.events)
                             ELSE all
              [] OTHER -> NavReturn(<<>>, refs1, events)

\* navigateSchema(schema, path): const refs = {}; inner(schema, 0).flat(Infinity)
NavigateSchema(schema, path) ==
    Inner(schema, 0, [id \in RefIds |-> NoSchema], {}, path)

\* The schemas navigated. SchemaAB is {a: {b: {type: string}}}.
SchemaAB == ObjectSchema(<<Prop(StrA, ObjectSchema(<<Prop(StrB, StringSchema)>>))>>)
SchemaPrefix == ObjectSchema(<<Prop(StrAB, StringSchema), Prop(StrB, ArraySchema(StringSchema))>>)
SchemaArray == ArraySchema(ObjectSchema(<<Prop(StrA, StringSchema)>>))
SchemaAnyOf ==
    AnyOf(<<ObjectSchema(<<Prop(StrA, StringSchema)>>),
            ObjectSchema(<<Prop(StrA, ArraySchema(StringSchema)), Prop(StrB, StringSchema)>>),
            StringSchema>>)
SchemaOneOf ==
    OneOf(<<ObjectSchema(<<Prop(StrA, StringSchema)>>),
            ObjectSchema(<<Prop(StrB, AnyOf(<<StringSchema, ArrayNoItems>>))>>)>>)
\* oneOf whose first branch alone matches [a], with two nodes
SchemaOneOfAnyOf ==
    OneOf(<<AnyOf(<<ObjectSchema(<<Prop(StrA, StringSchema)>>),
                    ObjectSchema(<<Prop(StrA, ArraySchema(StringSchema))>>)>>),
            StringSchema>>)
\* oneOf with two branches that match [a]
SchemaOneOfBoth ==
    OneOf(<<ObjectSchema(<<Prop(StrA, StringSchema)>>),
            ObjectSchema(<<Prop(StrA, ArrayNoItems), Prop(StrB, StringSchema)>>)>>)
\* combinators below a property
SchemaObjectAnyOf == ObjectSchema(<<Prop(StrA, SchemaAnyOf), Prop(StrB, SchemaOneOf)>>)
SchemaAllOf == AllOf(<<ObjectSchema(<<Prop(StrA, StringSchema)>>)>>)
SchemaObjectAllOf ==
    ObjectSchema(<<Prop(StrA, AllOf(<<StringSchema>>)), Prop(StrB, StringSchema)>>)
SchemaAnyOfAllOf == AnyOf(<<StringSchema, ObjectSchema(<<Prop(StrA, AllOf(<<StringSchema>>))>>)>>)
SchemaRecursive == WithId(ObjectSchema(<<Prop(StrA, Ref("A")), Prop(StrB, StringSchema)>>), "A")
SchemaRefMissing == ObjectSchema(<<Prop(StrA, Ref("missing")), Prop(StrB, StringSchema)>>)
SchemaAnyOfRefMissing == AnyOf(<<ObjectSchema(<<Prop(StrA, StringSchema)>>), Ref("missing")>>)
SchemaRefBeforeId == AnyOf(<<Ref("B"), WithId(ObjectSchema(<<Prop(StrA, StringSchema)>>), "B")>>)
SchemaRefAfterId == AnyOf(<<WithId(ObjectSchema(<<Prop(StrA, StringSchema)>>), "B"), Ref("B")>>)

NavSchemas ==
    {StringSchema, SchemaAB, SchemaPrefix, SchemaArray, ArrayNoItems, SchemaAnyOf, SchemaOneOf,
     SchemaOneOfAnyOf, SchemaOneOfBoth, SchemaObjectAnyOf,
     SchemaAllOf, SchemaObjectAllOf, SchemaAnyOfAllOf, SchemaRecursive, SchemaRefMissing,
     SchemaAnyOfRefMissing, SchemaRefBeforeId, SchemaRefAfterId}

PathSegments == {StrA, StrB, StrX, Str0, StrConstructor}
NavPaths == UNION {[1..n -> PathSegments] : n \in 0..MaxPathLen}

NotNavigated == [nodes |-> <<>>, refs |-> <<>>, events |-> {}, threw |-> "not-called"]

NInit ==
    /\ navSchema \in NavSchemas
    /\ navPath \in NavPaths
    /\ navResult = NotNavigated

NIdle ==
    /\ navSchema = NoSchema
    /\ navPath = <<>>
    /\ navResult = NotNavigated

\* The call navigateSchema(navSchema, navPath).
Navigate ==
    /\ navResult = NotNavigated
    /\ navResult' = NavigateSchema(navSchema, navPath)
    /\ UNCHANGED <<navSchema, navPath>>
    /\ UNCHANGED outsideNav

NNext == Navigate

(***************************************************************************)
(* automation.js: completions and completionsPromise                       *)
(***************************************************************************)
\* Collation lists the characters of the candidate texts in the order String.prototype.localeCompare ranks them
\* (white space, punctuation, digits, lower-case letters).
Collation == "\n -:01abcdefghijklmnopqrstuvwxyz"

CharRank(c) == CHOOSE i \in 1..Len(Collation) : SubSeq(Collation, i, i) = c

StrW == "w"
StrWe == "we"
StrWidth == "width"
StrWeight == "weight"
StrHeight == "height"
StrEmpty == ""

\* a.localeCompare(b): negative, zero or positive.
RECURSIVE LocaleCompare(_, _)
LocaleCompare(a, b) ==
    IF a = "" /\ b = "" THEN 0
    ELSE IF a = "" THEN -1
    ELSE IF b = "" THEN 1
    ELSE IF CharRank(Head(a)) < CharRank(Head(b)) THEN -1
    ELSE IF CharRank(Head(a)) > CharRank(Head(b)) THEN 1
    ELSE LocaleCompare(Tail(a), Tail(b))

\* One step of the (stable) Array.prototype.sort: x goes behind every
\* element that does not compare greater than it.
RECURSIVE InsertSorted(_, _)
InsertSorted(x, sorted) ==
    IF sorted = <<>> THEN <<x>>
    ELSE IF LocaleCompare(Head(sorted).value, x.value) <= 0
         THEN <<Head(sorted)>> \o InsertSorted(x, Tail(sorted))
         ELSE <<x>> \o sorted

SortKeepsOrder(list) == list

\* completions2.sort((a, b) => a.value.localeCompare(b.value))
RECURSIVE SortCompletions(_)
SortCompletions(list) ==
    IF list = <<>> THEN <<>>
    ELSE InsertSorted(list[Len(list)], SortCompletions(SubSeq(list, 1, Len(list) - 1)))

\* .filter((c) => c.value.startsWith(word))
FilterByWord(list, word) == SelectSeq(list, LAMBDA c : IsPrefix(word, c.value))

\* The promise noCompletions resolves to null.
NoCompletions == [token |-> "null", completions |-> <<>>, cacheable |-> FALSE]

\* completionsPromise: sorts a copy (slice) of the list it is given; `given`
\* is that list as the caller sees it after the call.
CompletionsPromise(completions2, word) ==
    [result |-> [token |-> word,
                 completions |-> SortCompletions(completions2),
                 cacheable |-> TRUE],
     given |-> completions2]

\* completions(), from the flattened candidates of the matching schemas on.
CompletionsOf(candidates, word) ==
    LET completions2 == FilterByWord(candidates, word)
    IN  IF Len(completions2) = 0
        THEN [result |-> NoCompletions, given |-> candidates]
        ELSE [result |-> CompletionsPromise(completions2, word).result,
              given |-> candidates]

CandidateValues == {StrWidth, StrWeight, StrHeight, StrW}
CandidateItems == [value : CandidateValues, type : {"key", "value"}]
CandidateLists == UNION {[1..n -> CandidateItems] : n \in 0..MaxCandidates}
Words == {StrEmpty, StrW, StrWe, StrHeight}

NotCompleted == [token |-> "not-called", completions |-> <<>>, cacheable |-> FALSE]
NoGen == [candidates |-> <<>>, word |-> StrEmpty, given |-> <<>>, result |-> NotCompleted,
          called |-> FALSE]

GInit ==
    \E c \in CandidateLists, w \in Words :
        gen = [NoGen EXCEPT !.candidates = c, !.word = w, !.given = c]

GIdle == gen = NoGen

\* The call completions({schema, path, word, ...}) once the schemas matching
\* the path have produced gen.candidates.
Complete ==
    /\ ~gen.called
    /\ LET r == CompletionsOf(gen.candidates, gen.word)
       IN  gen' = [gen EXCEPT !.result = r.result, !.given = r.given, !.called = TRUE]
    /\ UNCHANGED outsideGen

GNext == Complete

(***************************************************************************)
(* Text helpers (String.prototype and core.lines)                          *)
(***************************************************************************)
\* A document is the sequence of its lines (core.lines: the text split at
\* its newlines); rows, columns and offsets count from 0 as in the source.
Newline == "\n"

CharAt(s, i) == SubSeq(s, i + 1, i + 1)

Whitespace == {" ", "\t"}

RECURSIVE TrimStart(_)
TrimStart(s) ==
    IF s # "" /\ Head(s) \in Whitespace THEN TrimStart(Tail(s)) ELSE s

RECURSIVE TrimEnd(_)
TrimEnd(s) ==
    IF s # "" /\ CharAt(s, Len(s) - 1) \in Whitespace
    THEN TrimEnd(SubSeq(s, 1, Len(s) - 1))
    ELSE s

Trim(s) == TrimEnd(TrimStart(s))

StartsWith(s, p) == IsPrefix(p, s)
EndsWith(s, p) == Len(p) <= Len(s) /\ SubSeq(s, Len(s) - Len(p) + 1, Len(s)) = p

RECURSIVE IndexOf(_, _)
IndexOf(s, c) ==
    IF s = "" THEN -1
    ELSE IF Head(s) = c THEN 0
    ELSE LET r == IndexOf(Tail(s), c) IN IF r = -1 THEN -1 ELSE r + 1

\* line.split(" ").slice(-1)[0]: what follows the last blank of the line.
RECURSIVE LastWord(_)
LastWord(s) ==
    IF IndexOf(s, " ") = -1 THEN s ELSE LastWord(SubSeq(s, IndexOf(s, " ") + 2, Len(s)))

RECURSIVE JoinLines(_)
JoinLines(lines) ==
    IF Len(lines) = 0 THEN ""
    ELSE IF Len(lines) = 1 THEN lines[1]
    ELSE lines[1] \o Newline \o JoinLines(Tail(lines))

RECURSIVE LineStart(_, _)
LineStart(lines, row) ==
    IF row <= 0 THEN 0 ELSE LineStart(lines, row - 1) + Len(lines[row]) + 1

\* core.rowColToIndex(text)({row, column})
RowColToIndex(lines, row, column) == LineStart(lines, row) + column

\* Array.prototype.reverse
Reverse(s) == [i \in 1..Len(s) |-> s[Len(s) + 1 - i]]

(***************************************************************************)
(* parsing.js: getIndent, getYamlIndentTree, locateFromIndentation         *)
(***************************************************************************)
GetIndent(l) == Len(l) - Len(TrimStart(l))

\* A read of an array element that was never written, or of one outside the
\* array, gives undefined.
UndefinedIndex == -2

ReadIndex(arr, i) == IF i \in DOMAIN arr THEN arr[i] ELSE UndefinedIndex

WalkBackNowhere(v, predecessor, indents, lineIndent) == v

\* while (v >= 0 && indents[v] >= lineIndent) v = predecessor[v]
RECURSIVE WalkBack(_, _, _, _)
WalkBack(v, predecessor, indents, lineIndent) ==
    IF v >= 0 /\ indents[v] >= lineIndent
    THEN WalkBack(ReadIndex(predecessor, v), predecessor, indents, lineIndent)
    ELSE v

\* The loop of getYamlIndentTree from line i on; predecessor and indents are
\* functions on the rows handled so far.
RECURSIVE IndentTreeFrom(_, _, _, _, _, _)
IndentTreeFrom(lines, i, predecessor, indents, indentation, prevPredecessor) ==
    IF i >= Len(lines)
    THEN [predecessor |-> predecessor, indentation |-> indents]
    ELSE
        LET line == lines[i + 1]
            lineIndent == GetIndent(line)
            indents2 == indents @@ (i :> lineIndent)
            inherit == ReadIndex(predecessor, prevPredecessor)
        IN  IF Len(Trim(line)) = 0
            THEN IndentTreeFrom(lines, i + 1, predecessor @@ (i :> inherit), indents2,
                                indentation, prevPredecessor)
            ELSE IF lineIndent = indentation
            THEN IndentTreeFrom(lines, i + 1, predecessor @@ (i :> inherit), indents2,
                                indentation, i)
            ELSE IF lineIndent < indentation
            THEN IndentTreeFrom(lines, i + 1,
                                predecessor @@
                                    (i :> WalkBack(prevPredecessor, predecessor, indents2, lineIndent)),
                                indents2, lineIndent, i)
            ELSE IndentTreeFrom(lines, i + 1, predecessor @@ (i :> prevPredecessor), indents2,
                                lineIndent, i)

GetYamlIndentTree(lines) == IndentTreeFrom(lines, 0, <<>>, <<>>, -1, -1)

\* while (prev >= 0 && lines[prev].trim().length === 0) prev--
RECURSIVE PreviousNonBlank(_, _)
PreviousNonBlank(lines, prev) ==
    IF prev >= 0 /\ Len(Trim(lines[prev + 1])) = 0
    THEN PreviousNonBlank(lines, prev - 1)
    ELSE prev

\* What a locator hands back: a path, undefined, or a raised error.
PathResult(path) == [kind |-> "path", path |-> path, withError |-> FALSE]
PathWithError(path) == [kind |-> "path", path |-> path, withError |-> TRUE]
NoPath == [kind |-> "undefined", path |-> <<>>, withError |-> FALSE]
LocateThrew == [kind |-> "threw", path |-> <<>>, withError |-> FALSE]

\* return void 0: a line on the walk that is neither blank, a dash item nor
\* `key:`.
UnrecognizedShape(path) == NoPath

\* One turn of the while loop of locateFromIndentation (lines 938-962); path
\* is in push order. done tells that the turn left the function, with result.
WalkTurn(done, lineNo, path, result) ==
    [done |-> done, lineNo |-> lineNo, path |-> path, result |-> result]

IndentationStep(lines, tree, lineIndent, lineNo, path) ==
    IF lineNo \notin 0..(Len(lines) - 1) THEN WalkTurn(TRUE, lineNo, path, LocateThrew)
    ELSE
        LET trimmed == Trim(lines[lineNo + 1])
            prev == PreviousNonBlank(lines, lineNo)
            blank == Len(trimmed) = 0
            next == tree.predecessor[lineNo]
        IN  IF blank /\ prev = -1 THEN WalkTurn(TRUE, lineNo, path, PathResult(Reverse(path)))
            ELSE IF blank /\ GetIndent(lines[prev + 1]) < lineIndent
            THEN WalkTurn(FALSE, prev, path, NoPath)
            ELSE IF lineIndent >= tree.indentation[lineNo]
            THEN IF StartsWith(trimmed, "-")
                 THEN WalkTurn(FALSE, next, Append(path, "0"), NoPath)
                 ELSE IF EndsWith(trimmed, ":")
                 THEN WalkTurn(FALSE, next, Append(path, SubSeq(trimmed, 1, Len(trimmed) - 1)),
                               NoPath)
                 ELSE IF Len(trimmed) # 0
                 THEN WalkTurn(TRUE, lineNo, path, UnrecognizedShape(path))
                 ELSE WalkTurn(FALSE, next, path, NoPath)
            ELSE WalkTurn(FALSE, next, path, NoPath)

\* while (lineNo !== -1) {...}; path.reverse(); return path
RECURSIVE IndentationWalk(_, _, _, _, _)
IndentationWalk(lines, tree, lineIndent, lineNo, path) ==
    LET After(turn) ==
            IF turn.done THEN turn.result
            ELSE IndentationWalk(lines, tree, lineIndent, turn.lineNo, turn.path)
    IN  IF lineNo = -1 THEN PathResult(Reverse(path))
        ELSE After(IndentationStep(lines, tree, lineIndent, lineNo, path))

\* locateFromIndentation({line, code, position}); only position.row is read.
LocateFromIndentation(line, lines, row) ==
    IndentationWalk(lines, GetYamlIndentTree(lines), GetIndent(line), row, <<>>)

NotCalled == [kind |-> "not-called", path |-> <<>>, withError |-> FALSE]

(***************************************************************************)
(* parsing.js: getTreeSitter                                               *)
(***************************************************************************)
\* A caller of getTreeSitter: at "init" it awaits Parser.init(), at "load"
\* Parser.Language.load(...); handed is the parser it got back (0: none yet)
\* and ready tells whether that parser had its language set when handed over.
NotCalling == [pc |-> "idle", handed |-> 0, ready |-> FALSE]

\* _parser is 0 while undefined; instances[i] tells whether setLanguage was
\* called on the i-th parser constructed.
NoParser == [parser |-> 0, instances |-> <<>>, callers |-> [c \in 1..MaxCallers |-> NotCalling]]

TIdle == ts = [parser |-> 0, instances |-> <<>>, callers |-> <<>>]

TInit == ts = NoParser

\* getTreeSitter() up to its first suspension: if (_parser) return _parser;
\* otherwise await Parser.init().
GetTreeSitter(c) ==
    /\ ts.callers[c].pc = "idle"
    /\ ts' = IF ts.parser # 0
             THEN [ts EXCEPT !.callers[c] = [pc |-> "done", handed |-> ts.parser,
                                             ready |-> ts.instances[ts.parser]]]
             ELSE [ts EXCEPT !.callers[c].pc = "init"]
    /\ UNCHANGED outsideTs

\* Parser.init() has resolved: _parser = new Parser(), then the caller awaits
\* Parser.Language.load(...).
AfterInit(c) ==
    /\ ts.callers[c].pc = "init"
    /\ ts' = [ts EXCEPT !.instances = Append(@, FALSE),
                        !.parser = Len(ts.instances) + 1,
                        !.callers[c].pc = "load"]
    /\ UNCHANGED outsideTs

\* The grammar has loaded: _parser.setLanguage(YAML); return _parser.
AfterLoad(c) ==
    /\ ts.callers[c].pc = "load"
    /\ ts' = [ts EXCEPT !.instances[ts.parser] = TRUE,
                        !.callers[c] = [pc |-> "done", handed |-> ts.parser, ready |-> TRUE]]
    /\ UNCHANGED outsideTs

TNext == \E c \in 1..MaxCallers : GetTreeSitter(c) \/ AfterInit(c) \/ AfterLoad(c)

(***************************************************************************)
(* locateFromIndentation, turn by turn                                      *)
(***************************************************************************)
\* The lines of the documents walked: blank lines, keys at three depths, a
\* dash item and a line of another shape.
WalkLineKinds == {"", "  ", "a:", "  b:", "    c:", "  - x", "  x"}

WalkDocuments == UNION {[1..n -> WalkLineKinds] : n \in 1..MaxWalkLines}

NoTree == [predecessor |-> <<>>, indentation |-> <<>>]

NotWalked ==
    [lines |-> <<>>, row |-> 0, tree |-> NoTree, lineNo |-> 0, path |-> <<>>, pc |-> "idle",
     result |-> NotCalled]

WIdle == walk = NotWalked

WInit ==
    \E lines \in WalkDocuments :
        \E row \in 0..(Len(lines) - 1) :
            walk = [NotWalked EXCEPT !.lines = lines, !.row = row, !.pc = "start"]

\* Lines 932-936: the indentation tree, lineNo = position.row, path = [].
WalkStart ==
    /\ walk.pc = "start"
    /\ walk' = [walk EXCEPT !.tree = GetYamlIndentTree(walk.lines),
                            !.lineNo = walk.row,
                            !.pc = "walking"]
    /\ UNCHANGED outsideWalk

\* One turn of the loop while lineNo !== -1.
WalkStep ==
    /\ walk.pc = "walking"
    /\ walk.lineNo # -1
    /\ LET After(turn) ==
               [walk EXCEPT !.lineNo = turn.lineNo,
                            !.path = turn.path,
                            !.pc = IF turn.done THEN "done" ELSE "walking",
                            !.result = IF turn.done THEN turn.result ELSE NotCalled]
       IN  walk' = After(IndentationStep(walk.lines, walk.tree,
                                         GetIndent(walk.lines[walk.row + 1]), walk.lineNo,
                                         walk.path))
    /\ UNCHANGED outsideWalk

\* The loop condition fails: path.reverse(); return path.
WalkReturn ==
    /\ walk.pc = "walking"
    /\ walk.lineNo = -1
    /\ walk' = [walk EXCEPT !.pc = "done", !.result = PathResult(Reverse(walk.path))]
    /\ UNCHANGED outsideWalk

WNext == WalkStart \/ WalkStep \/ WalkReturn

(***************************************************************************)
(* tree-sitter-annotated-yaml.js: buildAnnotated                           *)
(***************************************************************************)
\* A node of the parser's concrete syntax tree. An anonymous node (a token
\* such as ":" or "-") has its own text as its type.
CstNode(text, type, s, e, children) ==
    [type |-> type, startIndex |-> s, endIndex |-> e, text |-> SubSeq(text, s + 1, e),
     children |-> children]

\* node.firstChild and node.child(i) of a node without such a child.
CstNull == [type |-> "null", startIndex |-> 0, endIndex |-> 0, text |-> "", children |-> <<>>]

FirstChild(node) == IF Len(node.children) = 0 THEN CstNull ELSE node.children[1]

Annotated(kind, s, e, result, components) ==
    [kind |-> kind, start |-> s, end |-> e, result |-> result, components |-> components]

AnnotatedNull == Annotated("null", 0, 0, "", <<>>)

\* throw new Error(...) out of the builder; what names the error.
BuildThrow(what) == Annotated("<<THROW>>", 0, 0, what, <<>>)

IsThrow(a) == a.kind = "<<THROW>>"

\* mappedSource.mapClosest for a text that is its own source.
MapClosest(offset) == offset

AnnotateEmptyAtStart(pos) == Annotated("<<EMPTY>>", 0, 0, "null", <<>>)

\* annotateEmpty(position)
AnnotateEmpty(pos) == Annotated("<<EMPTY>>", MapClosest(pos), MapClosest(pos), "null", <<>>)

Annotate(node, result, components) ==
    Annotated(node.type, MapClosest(node.startIndex), MapClosest(node.endIndex), result,
              components)

\* JSON.parse of the text of a double-quoted scalar without escapes.
JsonParseString(text) == SubSeq(text, 2, Len(text) - 1)

\* The kinds with an entry in the dispatch table.
DispatchKinds ==
    {"stream", "document", "block_node", "flow_node", "block_sequence",
     "block_sequence_item", "double_quote_scalar", "plain_scalar", "flow_sequence",
     "block_mapping", "block_mapping_pair"}

\* The first raised error among built components, if any.
FirstThrow(built) ==
    LET bad == {i \in 1..Len(built) : IsThrow(built[i]) \/ built[i] = AnnotatedNull}
        i == CHOOSE k \in bad : \A j \in bad : k <= j
    IN  IF built[i] = AnnotatedNull THEN BuildThrow("TypeError") ELSE built[i]

HasThrow(built) == \E i \in 1..Len(built) : IsThrow(built[i]) \/ built[i] = AnnotatedNull

RECURSIVE Flatten(_)
Flatten(lists) == IF lists = <<>> THEN <<>> ELSE Head(lists) \o Flatten(Tail(lists))

\* if (dispatch[node.type] === void 0) throw new Error(...)
UnknownKind(node) == BuildThrow("unsupported-node-kind")

\* result[key] = value on an object, kept as its entries in insertion order.
SetEntry(entries, key, value) ==
    IF \E i \in 1..Len(entries) : entries[i].key = key
    THEN [i \in 1..Len(entries) |->
             IF entries[i].key = key THEN [key |-> key, value |-> value] ELSE entries[i]]
    ELSE Append(entries, [key |-> key, value |-> value])

RECURSIVE BuildNode(_)

\* The component block_mapping makes of one child (lines 736-749).
MappingChild(child) ==
    IF child.type = "ERROR"
    THEN Annotate(child, "<pair>",
                  <<Annotate(child, child.text, <<>>), AnnotateEmpty(child.endIndex)>>)
    ELSE IF child.type # "block_mapping_pair"
    THEN BuildThrow("expected-block-mapping-pair")
    ELSE BuildNode(child)

\* The result object of block_mapping after its first n children: the
\* assignment of line 738 for an ERROR child, then `result[key] = value`
\* with the key and value results of the child's component (lines 750-751).
\* The annotation itself carries "<object>" for it.
RECURSIVE MappingResult(_, _)
MappingResult(node, n) ==
    IF n = 0 THEN <<>>
    ELSE LET child == node.children[n]
             Assign(before, component) ==
                 SetEntry(IF child.type = "ERROR"
                          THEN SetEntry(before, child.text, "<<ERROR>>")
                          ELSE before,
                          component.components[1].result, component.components[2].result)
         IN  Assign(MappingResult(node, n - 1), MappingChild(child))

BuildNode(node) ==
    IF node = CstNull THEN AnnotatedNull
    ELSE IF node.type \notin DispatchKinds THEN UnknownKind(node)
    ELSE IF node.type \in {"stream", "document", "block_node", "flow_node"}
    THEN BuildNode(FirstChild(node))
    ELSE IF node.type \in {"block_sequence", "flow_sequence"}
    THEN LET itemType == IF node.type = "block_sequence" THEN "block_sequence_item"
                         ELSE "flow_node"
             items == SelectSeq(node.children, LAMBDA c : c.type = itemType)
             built == [i \in 1..Len(items) |-> BuildNode(items[i])]
         IN  IF HasThrow(built) THEN FirstThrow(built)
             ELSE Annotate(node, "<array>", built)
    ELSE IF node.type = "block_sequence_item"
    THEN IF Len(node.children) < 2 THEN AnnotateEmpty(node.endIndex)
         ELSE BuildNode(node.children[2])
    ELSE IF node.type = "double_quote_scalar"
    THEN Annotate(node, JsonParseString(node.text), <<>>)
    ELSE IF node.type = "plain_scalar"
    THEN Annotate(node, node.text, <<>>)
    ELSE IF node.type = "block_mapping"
    THEN LET built == [i \in 1..Len(node.children) |-> MappingChild(node.children[i])]
         IN  IF HasThrow(built) THEN FirstThrow(built)
             ELSE Annotate(node, "<object>",
                           Flatten([i \in 1..Len(built) |-> built[i].components]))
    ELSE \* block_mapping_pair
         IF Len(node.children) = 3
         THEN LET key == Annotate(node.children[1], node.children[1].text, <<>>)
                  value == BuildNode(node.children[3])
              IN  IF HasThrow(<<value>>) THEN FirstThrow(<<value>>)
                  ELSE Annotate(node, "<pair>", <<key, value>>)
         ELSE IF Len(node.children) = 2
         THEN Annotate(node, "<pair>",
                       <<Annotate(node.children[1], node.children[1].text, <<>>),
                         AnnotateEmpty(node.endIndex)>>)
         ELSE Annotate(node, "<pair>",
                       <<AnnotateEmpty(node.endIndex), AnnotateEmpty(node.endIndex)>>)

\* buildAnnotated(tree, mappedSource)
BuildAnnotated(tree) == BuildNode(tree)

(***************************************************************************)
(* tree-sitter-annotated-yaml.js: locateCursor                             *)
(***************************************************************************)
WithinStrict(c, pos) == c.start < pos /\ pos < c.end

\* keyC.start <= position && position <= keyC.end
Within(c, pos) == c.start <= pos /\ pos <= c.end

\* throw new Error("Internal error: cursor outside bounds in sequence locate?")
SequencePastEnd(node, pathSoFar, failed) == LocateThrew

\* The path is kept leaf first, as [x, pathSoFar] flattened; a sequence
\* index is held as its decimal text.
RECURSIVE Locate(_, _, _, _)
RECURSIVE ScanPairs(_, _, _, _, _)
RECURSIVE ScanItems(_, _, _, _, _)

IndexText(i) == IF i \in 0..9 THEN SubSeq("0123456789", i + 1, i + 1) ELSE "n"

ScanPairs(node, i, pos, pathSoFar, failed) ==
    IF i >= Len(node.components)
    THEN [kind |-> "path", path |-> pathSoFar, withError |-> TRUE]
    ELSE LET keyC == node.components[i + 1]
             valueC == node.components[i + 2]
         IN  IF Within(keyC, pos)
             THEN [kind |-> "path", path |-> <<keyC.result>> \o pathSoFar, withError |-> failed]
             ELSE IF Within(valueC, pos)
             THEN Locate(valueC, pos, <<keyC.result>> \o pathSoFar, failed)
             ELSE ScanPairs(node, i + 2, pos, pathSoFar, failed)

ScanItems(node, i, pos, pathSoFar, failed) ==
    IF i >= Len(node.components)
    THEN SequencePastEnd(node, pathSoFar, failed)
    ELSE LET valueC == node.components[i + 1]
         IN  IF Within(valueC, pos)
             THEN Locate(valueC, pos, <<IndexText(i)>> \o pathSoFar, failed)
             ELSE IF valueC.start > pos
             THEN IF i = 0
                  THEN [kind |-> "path", path |-> pathSoFar, withError |-> failed]
                  ELSE [kind |-> "path", path |-> <<IndexText(i - 1)>> \o pathSoFar,
                        withError |-> failed]
             ELSE ScanItems(node, i + 1, pos, pathSoFar, failed)

Locate(node, pos, pathSoFar, failed) ==
    IF node.kind \in {"block_mapping", "flow_mapping"}
    THEN ScanPairs(node, 0, pos, pathSoFar, failed)
    ELSE IF node.kind \in {"block_sequence", "flow_sequence"}
    THEN ScanItems(node, 0, pos, pathSoFar, failed)
    ELSE IF node.kind # "<<EMPTY>>"
    THEN [kind |-> "path", path |-> <<node.result>> \o pathSoFar, withError |-> failed]
    ELSE [kind |-> "path", path |-> pathSoFar, withError |-> failed]

\* locateCursor(annotation, position): {withError, value}, value root first.
LocateCursor(annotation, pos) ==
    IF annotation = AnnotatedNull THEN LocateThrew
    ELSE LET r == Locate(annotation, pos, <<>>, FALSE)
         IN  IF r.kind = "threw" THEN r ELSE [r EXCEPT !.path = Reverse(r.path)]

(***************************************************************************)
(* Parsed documents: what the external parser returns for some texts       *)
(***************************************************************************)
Token(text, s, e) == CstNode(text, SubSeq(text, s + 1, e), s, e, <<>>)
PlainScalar(text, s, e) ==
    CstNode(text, "flow_node", s, e, <<CstNode(text, "plain_scalar", s, e, <<>>)>>)
BlockNode(text, s, e, child) == CstNode(text, "block_node", s, e, <<child>>)
\* stream > document > block_node | flow_node around the top node.
Stream(text, top) ==
    CstNode(text, "stream", 0, Len(text),
            <<CstNode(text, "document", top.startIndex, top.endIndex,
                      <<BlockNode(text, top.startIndex, top.endIndex, top)>>)>>)
Pair(text, s, e, children) == CstNode(text, "block_mapping_pair", s, e, children)
Mapping(text, s, e, pairs) == CstNode(text, "block_mapping", s, e, pairs)

Parsed(lines, top) == [lines |-> lines, tree |-> Stream(JoinLines(lines), top)]

\* a: 1
DocScalarPair ==
    LET lines == <<"a: 1">>  x == JoinLines(lines)
    IN  Parsed(lines,
            Mapping(x, 0, 4, <<Pair(x, 0, 4,
                <<PlainScalar(x, 0, 1), Token(x, 1, 2), PlainScalar(x, 3, 4)>>)>>))

\* a:
DocKeyOnly ==
    LET lines == <<"a:">>  x == JoinLines(lines)
    IN  Parsed(lines,
            Mapping(x, 0, 2, <<Pair(x, 0, 2, <<PlainScalar(x, 0, 1), Token(x, 1, 2)>>)>>))

\* a:\n  b:
DocNestedKey ==
    LET lines == <<"a:", "  b:">>  x == JoinLines(lines)
    IN  Parsed(lines,
            Mapping(x, 0, 7, <<Pair(x, 0, 7,
                <<PlainScalar(x, 0, 1), Token(x, 1, 2),
                  BlockNode(x, 5, 7, Mapping(x, 5, 7, <<Pair(x, 5, 7,
                      <<PlainScalar(x, 5, 6), Token(x, 6, 7)>>)>>))>>)>>))

\* a:\n  b: 1\n  (the last line is blank)
DocBlankLast ==
    LET lines == <<"a:", "  b: 1", "  ">>  x == JoinLines(lines)
    IN  Parsed(lines,
            Mapping(x, 0, 9, <<Pair(x, 0, 9,
                <<PlainScalar(x, 0, 1), Token(x, 1, 2),
                  BlockNode(x, 5, 9, Mapping(x, 5, 9, <<Pair(x, 5, 9,
                      <<PlainScalar(x, 5, 6), Token(x, 6, 7), PlainScalar(x, 8, 9)>>)>>))>>)>>))

\* a: 1\nb: 2
DocTwoPairs ==
    LET lines == <<"a: 1", "b: 2">>  x == JoinLines(lines)
    IN  Parsed(lines,
            Mapping(x, 0, 9,
                <<Pair(x, 0, 4, <<PlainScalar(x, 0, 1), Token(x, 1, 2), PlainScalar(x, 3, 4)>>),
                  Pair(x, 5, 9, <<PlainScalar(x, 5, 6), Token(x, 6, 7), PlainScalar(x, 8, 9)>>)>>))

\* - a\n- b
DocBlockSequence ==
    LET lines == <<"- a", "- b">>  x == JoinLines(lines)
    IN  Parsed(lines,
            CstNode(x, "block_sequence", 0, 7,
                <<CstNode(x, "block_sequence_item", 0, 3, <<Token(x, 0, 1), PlainScalar(x, 2, 3)>>),
                  CstNode(x, "block_sequence_item", 4, 7, <<Token(x, 4, 5), PlainScalar(x, 6, 7)>>)>>))

\* a:\n  - x
DocSequenceInMapping ==
    LET lines == <<"a:", "  - x">>  x == JoinLines(lines)
    IN  Parsed(lines,
            Mapping(x, 0, 8, <<Pair(x, 0, 8,
                <<PlainScalar(x, 0, 1), Token(x, 1, 2),
                  BlockNode(x, 5, 8, CstNode(x, "block_sequence", 5, 8,
                      <<CstNode(x, "block_sequence_item", 5, 8,
                            <<Token(x, 5, 6), PlainScalar(x, 7, 8)>>)>>))>>)>>))

\* x: [a, b]
DocFlowSequence ==
    LET lines == <<"x: [a, b]">>  x == JoinLines(lines)
    IN  Parsed(lines,
            Mapping(x, 0, 9, <<Pair(x, 0, 9,
                <<PlainScalar(x, 0, 1), Token(x, 1, 2),
                  CstNode(x, "flow_node", 3, 9, <<CstNode(x, "flow_sequence", 3, 9,
                      <<Token(x, 3, 4), PlainScalar(x, 4, 5), Token(x, 5, 6),
                        PlainScalar(x, 7, 8), Token(x, 8, 9)>>)>>)>>)>>))

\* a: []
DocEmptyFlowSequence ==
    LET lines == <<"a: []">>  x == JoinLines(lines)
    IN  Parsed(lines,
            Mapping(x, 0, 5, <<Pair(x, 0, 5,
                <<PlainScalar(x, 0, 1), Token(x, 1, 2),
                  CstNode(x, "flow_node", 3, 5, <<CstNode(x, "flow_sequence", 3, 5,
                      <<Token(x, 3, 4), Token(x, 4, 5)>>)>>)>>)>>))

\* a: 'x'  (the builder has no rule for single_quote_scalar)
DocSingleQuote ==
    LET lines == <<"a: 'x'">>  x == JoinLines(lines)
    IN  Parsed(lines,
            Mapping(x, 0, 6, <<Pair(x, 0, 6,
                <<PlainScalar(x, 0, 1), Token(x, 1, 2),
                  CstNode(x, "flow_node", 3, 6,
                      <<CstNode(x, "single_quote_scalar", 3, 6, <<>>)>>)>>)>>))

\* the empty text: a stream without children
DocEmpty == [lines |-> <<"">>, tree |-> CstNode("", "stream", 0, 0, <<>>)]

\* a: 1\n
DocTrailingNewline ==
    LET lines == <<"a: 1", "">>  x == JoinLines(lines)
    IN  Parsed(lines,
            Mapping(x, 0, 4, <<Pair(x, 0, 4,
                <<PlainScalar(x, 0, 1), Token(x, 1, 2), PlainScalar(x, 3, 4)>>)>>))

\* a: followed by one blank
DocKeyTrailingSpace ==
    LET lines == <<"a: ">>  x == JoinLines(lines)
    IN  Parsed(lines,
            Mapping(x, 0, 2, <<Pair(x, 0, 2, <<PlainScalar(x, 0, 1), Token(x, 1, 2)>>)>>))

ParsedDocs ==
    {DocScalarPair, DocKeyOnly, DocNestedKey, DocBlankLast, DocTwoPairs, DocBlockSequence,
     DocSequenceInMapping, DocFlowSequence, DocEmptyFlowSequence, DocSingleQuote,
     DocEmpty, DocTrailingNewline, DocKeyTrailingSpace}

ErrorNode(text, s, e) == CstNode(text, "ERROR", s, e, <<>>)

\* a: 1\nb - the parser gives the last line as an ERROR child of the mapping
DocErrorPair ==
    LET lines == <<"a: 1", "b">>  x == JoinLines(lines)
    IN  Parsed(lines,
            Mapping(x, 0, 6, <<Pair(x, 0, 4,
                <<PlainScalar(x, 0, 1), Token(x, 1, 2), PlainScalar(x, 3, 4)>>),
                ErrorNode(x, 5, 6)>>))

\* a:\n  b: 1\n  c - an ERROR child of the nested mapping
DocNestedErrorPair ==
    LET lines == <<"a:", "  b: 1", "  c">>  x == JoinLines(lines)
    IN  Parsed(lines,
            Mapping(x, 0, 13, <<Pair(x, 0, 13,
                <<PlainScalar(x, 0, 1), Token(x, 1, 2),
                  BlockNode(x, 5, 13, Mapping(x, 5, 13,
                      <<Pair(x, 5, 9,
                            <<PlainScalar(x, 5, 6), Token(x, 6, 7), PlainScalar(x, 8, 9)>>),
                        ErrorNode(x, 12, 13)>>))>>)>>))

\* a: 1\n: - a pair of the colon alone
DocTruncatedPair ==
    LET lines == <<"a: 1", ":">>  x == JoinLines(lines)
    IN  Parsed(lines,
            Mapping(x, 0, 6, <<Pair(x, 0, 4,
                <<PlainScalar(x, 0, 1), Token(x, 1, 2), PlainScalar(x, 3, 4)>>),
                Pair(x, 5, 6, <<Token(x, 5, 6)>>)>>))

\* Trees with an error pair or a truncated pair: the reparse search never
\* yields them, the builder accepts them.
MalformedDocs == {DocErrorPair, DocNestedErrorPair, DocTruncatedPair}

\* The block_mapping nodes of a tree, parents first.
RECURSIVE CstMappings(_)
CstMappings(node) ==
    (IF node.type = "block_mapping" THEN <<node>> ELSE <<>>) \o
        Flatten([i \in 1..Len(node.children) |-> CstMappings(node.children[i])])

\* The result object of every mapping the builder annotates in the tree.
MappingResults(tree) ==
    LET ResultsOf(mappings) ==
            [i \in 1..Len(mappings) |->
                [start |-> MapClosest(mappings[i].startIndex),
                 end |-> MapClosest(mappings[i].endIndex),
                 result |-> MappingResult(mappings[i], Len(mappings[i].children))]]
    IN  ResultsOf(CstMappings(tree))

(***************************************************************************)
(* The locators on a parsed document                                       *)
(***************************************************************************)
NotBuilt == Annotated("not-built", 0, 0, "", <<>>)

NotLocated ==
    [lines |-> <<>>, tree |-> CstNull, row |-> 0, column |-> 0,
     annotation |-> NotBuilt, objects |-> <<>>, structural |-> NotCalled,
     indentation |-> NotCalled]

LIdle == loc = NotLocated

LInit ==
    \E d \in ParsedDocs \cup MalformedDocs :
        \E row \in 0..(Len(d.lines) - 1) :
            \E column \in 0..Len(d.lines[row + 1]) :
                loc = [NotLocated EXCEPT !.lines = d.lines, !.tree = d.tree,
                                         !.row = row, !.column = column]

\* buildAnnotated on the parse of the document.
Build ==
    /\ loc.tree # CstNull
    /\ loc.annotation = NotBuilt
    /\ LET Built(annotation) ==
               [loc EXCEPT !.annotation = annotation,
                           !.objects = IF IsThrow(annotation) \/ annotation = AnnotatedNull
                                       THEN <<>> ELSE MappingResults(loc.tree)]
       IN  loc' = Built(BuildAnnotated(loc.tree))
    /\ UNCHANGED outsideLoc

\* locateCursor(doc, index) with index = rowColToIndex(...)(position).
LocateStructural ==
    /\ loc.annotation # NotBuilt
    /\ ~IsThrow(loc.annotation)
    /\ loc.structural = NotCalled
    /\ loc' = [loc EXCEPT !.structural =
                  LocateCursor(loc.annotation, RowColToIndex(loc.lines, loc.row, loc.column))]
    /\ UNCHANGED outsideLoc

\* locateFromIndentation({line, code, position}) with the cursor's line.
LocateIndentation ==
    /\ loc.tree # CstNull
    /\ loc.indentation = NotCalled
    /\ loc' = [loc EXCEPT !.indentation =
                  LocateFromIndentation(loc.lines[loc.row + 1], loc.lines, loc.row)]
    /\ UNCHANGED outsideLoc

LNext == Build \/ LocateStructural \/ LocateIndentation

(***************************************************************************)
(* automation.js: completions on one YAML region                           *)
(***************************************************************************)
RECURSIVE SplitLines(_)
\* core.lines / core.mappedLines / core.rangedLines: the text split at "\n".
SplitLines(text) ==
    LET i == IndexOf(text, Newline)
    IN  IF i = -1 THEN <<text>>
        ELSE <<SubSeq(text, 1, i)>> \o SplitLines(SubSeq(text, i + 2, Len(text)))

\* The root of a parse the parser could not make sense of.
CstError == [type |-> "ERROR", startIndex |-> 0, endIndex |-> 0, text |-> "", children |-> <<>>]

\* parser.parse(text).rootNode for the texts of the parsed documents; the
\* requests of this model only hand over other texts that are malformed.
ParseTree(text) ==
    LET TreeOf(parsed) ==
            IF parsed = {} THEN CstError ELSE (CHOOSE d \in parsed : TRUE).tree
    IN  TreeOf({d \in ParsedDocs : JoinLines(d.lines) = text})

RECURSIVE Spaces(_)
Spaces(n) == IF n <= 0 THEN "" ELSE " " \o Spaces(n - 1)

BooleanSchema == SchemaNode("boolean")

\* core.schemaCompletions(schema): a key candidate per property of an object
\* schema, the two value candidates of a boolean schema, and none otherwise.
\* A key candidate is marked suggest_on_accept.
SchemaCompletions(schema) ==
    IF SchemaType(schema) = "object"
    THEN [i \in 1..Len(schema.properties) |->
             [value |-> schema.properties[i].name \o ": ", type |-> "key",
              key |-> schema.properties[i].name]]
    ELSE IF SchemaType(schema) = "boolean"
    THEN <<[value |-> "true", type |-> "value", key |-> ""],
           [value |-> "false", type |-> "value", key |-> ""]>>
    ELSE <<>>

\* The map of lines 1207-1226: a key candidate whose property is an object
\* or an array gets a new line and the indentation of its first child.
SuggestOnAccept(schema, completion, indent, commentPrefix) ==
    IF completion.type = "value" \/ SchemaType(schema) # "object"
    THEN [value |-> completion.value, type |-> completion.type]
    ELSE LET sub == SchemaType(Property(schema, completion.key))
         IN  [value |-> completion.value \o
                        (IF sub = "object"
                         THEN Newline \o commentPrefix \o Spaces(indent + 2)
                         ELSE IF sub = "array"
                         THEN Newline \o commentPrefix \o Spaces(indent + 2) \o "- "
                         ELSE ""),
              type |-> completion.type]

RawCandidates(nodes, indent, commentPrefix) ==
    Flatten([k \in 1..Len(nodes) |->
                LET result == SchemaCompletions(nodes[k])
                IN  [i \in 1..Len(result) |->
                        SuggestOnAccept(nodes[k], result[i], indent, commentPrefix)]])

\* What a step of a request comes to: a value handed back or a raised error.
Returned(result) == [threw |-> "none", result |-> result]
Raised(what) == [threw |-> what, result |-> NoCompletions]

\* completions({schema, path, word, indent, commentPrefix}); located is what
\* the locator handed back. Reading path.length of undefined raises.
Completions(schema, located, word, indent, commentPrefix) ==
    IF located.kind # "path" THEN Raised("TypeError")
    ELSE LET nav == NavigateSchema(schema, located.path)
         IN  IF nav.threw # "none" THEN Raised(nav.threw)
             ELSE Returned(CompletionsOf(RawCandidates(nav.nodes, indent, commentPrefix),
                                         word).result)

\* rawCompletions.completions = rawCompletions.completions.filter(...type):
\* rawCompletions is null when completions() had nothing to offer.
FilterType(raw, type) ==
    IF raw.threw # "none" THEN raw
    ELSE IF raw.result = NoCompletions THEN Raised("TypeError")
    ELSE Returned([raw.result EXCEPT
                      !.completions = SelectSeq(@, LAMBDA c : c.type = type)])

\* core.mappedString(code, [{begin: 0, end}]): the fragment [0, end) of the
\* text (the fragment has no start, and its range begins at 0).
FragmentTo(text, end) == SubSeq(text, 1, Max(0, Min(end, Len(text))))

Context(line, text, row, column, schema, commentPrefix) ==
    [line |-> line, code |-> text, row |-> row, column |-> column, schema |-> schema,
     commentPrefix |-> commentPrefix]

\* How a request through the YAML entry points ends: the value handed back
\* (false stands for "no result") or the error raised, with what led there.
Outcome(kind, result, via, located, parses, what) ==
    [kind |-> kind, result |-> result, via |-> via, located |-> located,
     parses |-> parses, what |-> what]

ReturnedFalse(via, parses) == Outcome("false", NoCompletions, via, NotCalled, parses, "none")
Threw(what, via, located, parses) == Outcome("threw", NoCompletions, via, located, parses, what)

\* return rawCompletions, as the caller of the async function sees it.
FromRaw(raw, via, located, parses) ==
    IF raw.threw # "none" THEN Threw(raw.threw, via, located, parses)
    ELSE IF raw.result = NoCompletions
    THEN Outcome("null", NoCompletions, via, located, parses, "none")
    ELSE Outcome("completions", raw.result, via, located, parses, "none")

CursorNeverOnLastRow(text, row) == FALSE

\* position.row === codeLines.length - 1
CursorOnLastRow(text, row) == row = Len(SplitLines(text)) - 1

\* The two fence blocks that open automationFromGoodParseYAML and
\* completionsFromGoodParseYAML: onFence tells that the block returned false.
FenceStep(kind, ctx) ==
    LET starts == StartsWith(ctx.code, "---")
        code1 == IF starts THEN FragmentTo(ctx.code, 3) ELSE ctx.code
        ends == EndsWith(code1, "---")
        code2 == IF ends THEN FragmentTo(code1, Len(code1) - 3) ELSE code1
    IN  IF starts /\ kind = "completions" /\ ctx.row = 0
        THEN [onFence |-> TRUE, ctx |-> ctx]
        ELSE IF ends /\ kind = "completions" /\ CursorOnLastRow(code1, ctx.row)
        THEN [onFence |-> TRUE, ctx |-> ctx]
        ELSE [onFence |-> FALSE, ctx |-> [ctx EXCEPT !.code = code2]]

\* word: "" behind a dash or a colon, else what follows the last blank.
WordOf(line) ==
    IF line # "" /\ CharAt(line, Len(line) - 1) \in {"-", ":"} THEN "" ELSE LastWord(line)

\* line.trim().split(":")[0]
BeforeColon(s) == IF IndexOf(s, ":") = -1 THEN s ELSE SubSeq(s, 1, IndexOf(s, ":"))

\* The body of the for loop of completionsFromGoodParseYAML for the clean
\* candidate candText reached with d deletions: an outcome, or "continue".
CandidateBody(ctx, word, indent, d, candText, parses) ==
    LET line == ctx.line
        OnBlank(located) ==
            IF located.kind = "threw"
            THEN Threw("TypeError", "indentation", located, parses)
            ELSE FromRaw(FilterType(Completions(ctx.schema, located, word, indent,
                                                ctx.commentPrefix), "key"),
                         "indentation", located, parses)
        WithKey(found) ==
            IF /\ found.withError
               /\ ctx.column >= Len(line)
               /\ IndexOf(line, ":") # -1
            THEN [found EXCEPT !.path = Append(@, BeforeColon(Trim(line)))]
            ELSE found
        Filtered(raw) == IF IndexOf(line, ":") # -1 THEN FilterType(raw, "value") ELSE raw
        OnLocated(found) ==
            IF found.kind = "threw"
            THEN Threw("locate", "structural", found, parses)
            ELSE FromRaw(Filtered(Completions(ctx.schema, WithKey(found), word, indent,
                                              ctx.commentPrefix)),
                         "structural", WithKey(found), parses)
        OnDocument(doc) ==
            IF IsThrow(doc) THEN Threw(doc.result, "structural", NotCalled, parses)
            ELSE IF doc = AnnotatedNull
            THEN Threw("TypeError", "structural", NotCalled, parses)
            ELSE IF doc.end # Len(candText)
            THEN Outcome("continue", NoCompletions, "structural", NotCalled, parses, "none")
            ELSE OnLocated(LocateCursor(doc, RowColToIndex(SplitLines(candText), ctx.row,
                                                           ctx.column - d)))
    IN  IF Len(Trim(SubSeq(line, 1, Len(line) - d))) = 0
        THEN OnBlank(LocateFromIndentation(SubSeq(line, 1, Min(d, Len(line))),
                                           SplitLines(candText), ctx.row))
        ELSE OnDocument(BuildAnnotated(ParseTree(candText)))

\* for (const parseResult of attemptParsesAtLine(context, parser)) {...}
\* return false: the candidates with d, d + 1, ... deletions.
RECURSIVE ReparseLoop(_, _, _, _, _)
ReparseLoop(ctx, word, indent, d, parses) ==
    LET codeLines == SplitLines(ctx.code)
        rowExists == ctx.row \in 0..(Len(codeLines) - 1)
        candText == IF d = 0 THEN ctx.code
                    ELSE JoinLines(NewCode(codeLines, ctx.row, ctx.column - d))
        OrNext(body) ==
            IF body.kind # "continue" THEN body
            ELSE ReparseLoop(ctx, word, indent, d + 1, parses + 1)
    IN  IF d > 0 /\ ~rowExists THEN Threw("TypeError", "reparse", NotCalled, parses)
        ELSE IF d > 0 /\ ~LoopContinues(ctx.column - d + 1)
        THEN ReturnedFalse("reparse", parses)
        ELSE IF ParseTree(candText).type = "ERROR"
        THEN ReparseLoop(ctx, word, indent, d + 1, parses + 1)
        ELSE OrNext(CandidateBody(ctx, word, indent, d, candText, parses + 1))

\* completionsFromGoodParseYAML(context)
CompletionsFromGoodParseYAML(context) ==
    LET fence == FenceStep("completions", context)
        ctx == fence.ctx
        line == ctx.line
        word == WordOf(line)
        OnBlank(located) ==
            IF located.kind = "threw"
            THEN Threw("TypeError", "indentation", located, 0)
            ELSE FromRaw(FilterType(Completions(ctx.schema, located, word, Len(line),
                                                ctx.commentPrefix), "key"),
                         "indentation", located, 0)
    IN  IF fence.onFence THEN ReturnedFalse("fence", 0)
        ELSE IF Len(Trim(line)) = 0
        THEN OnBlank(LocateFromIndentation(line, SplitLines(ctx.code), ctx.row))
        ELSE ReparseLoop(ctx, word, Len(TrimEnd(line)) - Len(Trim(line)), 0, 0)

(***************************************************************************)
(* automation.js: validation, the markdown dispatcher, getAutomation       *)
(***************************************************************************)
\* What happens inside the function validationFromGoodParseYAML hands to
\* withValidator: `value` is what it returns ("false") or "threw"; validated
\* tells that validator.validateParse was called, and with how many
\* deletions.
Inside(value, what, validated, d) ==
    [value |-> value, what |-> what, validated |-> validated, deletions |-> d]

RECURSIVE ValidationLoop(_, _)
ValidationLoop(ctx, d) ==
    LET codeLines == SplitLines(ctx.code)
        rowExists == ctx.row \in 0..(Len(codeLines) - 1)
        candText == IF d = 0 THEN ctx.code
                    ELSE JoinLines(NewCode(codeLines, ctx.row, ctx.column - d))
        OnAnnotation(annotation) ==
            IF IsThrow(annotation) THEN Inside("threw", annotation.result, FALSE, d)
            ELSE IF annotation = AnnotatedNull THEN Inside("threw", "TypeError", FALSE, d)
            ELSE IF annotation.end # Len(candText) THEN ValidationLoop(ctx, d + 1)
            ELSE Inside("false", "none", TRUE, d)
    IN  IF d > 0 /\ ~rowExists THEN Inside("threw", "TypeError", FALSE, d)
        ELSE IF d > 0 /\ ~LoopContinues(ctx.column - d + 1)
        THEN Inside("false", "none", FALSE, d)
        ELSE IF ParseTree(candText).type = "ERROR" THEN ValidationLoop(ctx, d + 1)
        ELSE OnAnnotation(BuildAnnotated(ParseTree(candText)))

\* withValidator: try { return await fun(validator) } finally { return void 0 }
\* - the return in the finally block replaces both a returned value and a
\* raised error.
WithValidator(inside) == [threw |-> "none", value |-> "undefined"]

\* validationFromGoodParseYAML(context)
ValidationFromGoodParseYAML(ctx) ==
    LET Run(inside) == [handed |-> WithValidator(inside), inside |-> inside]
    IN  Run(ValidationLoop(ctx, 0))

\* What the promise of getCompletions / getLint settles with.
Delivered(kind, completions, lints, what) ==
    [kind |-> kind, completions |-> completions, lints |-> lints, what |-> what]

NotDelivered == Delivered("not-called", <<>>, <<>>, "none")

\* return result || null, for a completion request
DeliverCompletions(outcome) ==
    IF outcome.kind = "threw" THEN Delivered("threw", <<>>, <<>>, outcome.what)
    ELSE IF outcome.kind = "completions"
    THEN Delivered("completions", outcome.result.completions, <<>>, "none")
    ELSE Delivered("null", <<>>, <<>>, "none")

\* return result || null, for what withValidator handed back
DeliverValidation(handed) ==
    IF handed.threw # "none" THEN Delivered("threw", <<>>, <<>>, handed.threw)
    ELSE Delivered("null", <<>>, <<>>, "none")

\* automationFromGoodParseYAML(kind, context) for kind = "completions"
AutomationCompletionsYAML(context) ==
    LET fence == FenceStep("completions", context)
    IN  IF fence.onFence THEN ReturnedFalse("fence", 0)
        ELSE CompletionsFromGoodParseYAML(fence.ctx)

(***************************************************************************)
(* partition-cell-options.ts and automationFromGoodParseScript             *)
(***************************************************************************)
\* An entry of kLangCommentChars: a string, or an array of two strings.
CommentString(chars) == [array |-> FALSE, parts |-> <<chars>>]
CommentPair(open, close) == [array |-> TRUE, parts |-> <<open, close>>]
NoEntry == [array |-> FALSE, parts |-> <<>>]

KLangCommentChars(lang) ==
    IF lang \in {"r", "python", "julia", "powershell", "bash", "stan", "octave", "awk", "gawk",
                 "sed", "perl", "ruby", "coffee"}
    THEN CommentString("#")
    ELSE IF lang \in {"scala", "csharp", "fsharp", "cpp", "cc", "java", "groovy", "js", "d3",
                      "node", "sass", "go", "asy", "dot", "ojs"}
    THEN CommentString("//")
    ELSE IF lang \in {"matlab", "tikz"} THEN CommentString("%")
    ELSE IF lang \in {"c", "css"} THEN CommentPair("/*", "*/")
    ELSE IF lang = "sas" THEN CommentPair("*", ";")
    ELSE IF lang \in {"sql", "mysql", "psql", "lua", "haskell"} THEN CommentString("--")
    ELSE IF lang \in {"fortran", "fortran95"} THEN CommentString("!")
    ELSE IF lang = "stata" THEN CommentString("*")
    ELSE NoEntry

\* langCommentChars(lang): kLangCommentChars[lang] || "#", as an array.
LangCommentChars(lang) ==
    IF KLangCommentChars(lang) = NoEntry THEN <<"#">> ELSE KLangCommentChars(lang).parts

OptionCommentPrefix(comment) == comment \o "| "

\* The option lines partitionCellOptionsText finds at the top of the source,
\* each without its comment prefix and suffix.
RECURSIVE YamlLines(_, _, _)
YamlLines(lines, optionPrefix, optionSuffix) ==
    IF lines = <<>> THEN <<>>
    ELSE IF /\ StartsWith(Head(lines), optionPrefix)
            /\ (optionSuffix = "" \/ EndsWith(TrimEnd(Head(lines)), optionSuffix))
    THEN LET rest == SubSeq(Head(lines), Len(optionPrefix) + 1, Len(Head(lines)))
             yamlOption == IF optionSuffix = "" THEN rest
                           ELSE Substring0(TrimEnd(rest),
                                           Len(TrimEnd(rest)) - Len(optionSuffix))
         IN  <<yamlOption>> \o YamlLines(Tail(lines), optionPrefix, optionSuffix)
    ELSE <<>>

PartitionCellOptionsText(language, source) ==
    LET commentChars == LangCommentChars(language)
    IN  YamlLines(SplitLines(source), OptionCommentPrefix(commentChars[1]),
                  IF Len(commentChars) > 1 THEN commentChars[2] ELSE "")

\* partitionCellOptionsMapped is an async function whose result has the
\* fields yaml, optionsSource, source and sourceStartLine: the caller, which
\* does not await it, reads mappedYaml off the promise.
PartitionCellOptionsMapped(language, source) ==
    [promiseOf |-> PartitionCellOptionsText(language, source), mappedYaml |-> Undefined]

\* kLangCommentChars[language] + "| ": an array is joined with commas and a
\* missing entry reads "undefined".
RECURSIVE JoinComma(_)
JoinComma(parts) ==
    IF Len(parts) = 0 THEN ""
    ELSE IF Len(parts) = 1 THEN parts[1]
    ELSE parts[1] \o "," \o JoinComma(Tail(parts))

ToStringOfEntry(entry) == IF entry = NoEntry THEN "undefined" ELSE JoinComma(entry.parts)

ScriptCommentPrefix(language) == ToStringOfEntry(KLangCommentChars(language)) \o "| "

LowerCase ==
    {"a", "b", "c", "d", "e", "f", "g", "h", "i", "j", "k", "l", "m", "n", "o", "p", "q", "r",
     "s", "t", "u", "v", "w", "x", "y", "z"}

\* line.match(/.*{([a-z]+)}/): the group of the last "{letters}" of the line.
BraceGroups(line) ==
    {ij \in (0..(Len(line) - 1)) \X (0..(Len(line) - 1)) :
        /\ ij[2] > ij[1] + 1
        /\ CharAt(line, ij[1]) = "{"
        /\ CharAt(line, ij[2]) = "}"
        /\ \A k \in (ij[1] + 1)..(ij[2] - 1) : CharAt(line, k) \in LowerCase}

HeaderLanguage(line) ==
    LET Last(groups) == CHOOSE g \in groups : \A h \in groups : h[1] <= g[1]
        Group(g) == SubSeq(line, g[1] + 2, g[2])
    IN  IF BraceGroups(line) = {} THEN Undefined ELSE Group(Last(BraceGroups(line)))

NotInvoked == [called |-> FALSE, line |-> "", row |-> 0, column |-> 0, commentPrefix |-> ""]

Invoked(line, row, column, commentPrefix) ==
    [called |-> TRUE, line |-> line, row |-> row, column |-> column,
     commentPrefix |-> commentPrefix]

NotInScript == [entered |-> FALSE, language |-> Undefined, row |-> 0, invoked |-> NotInvoked]

ScriptResult(outcome, language, row, invoked) ==
    [outcome |-> outcome,
     script |-> [entered |-> TRUE, language |-> language, row |-> row, invoked |-> invoked]]

\* The YAML entry point handed a context whose code is undefined: reading
\* code.value raises inside the async function.
YamlEntryWithoutCode == Threw("TypeError", "script", NotCalled, 0)

\* automationFromGoodParseScript(kind, context) for kind = "completions";
\* registry holds the languages schemas.languages has an entry for.
AutomationFromGoodParseScript(declared, source, line, row, column, registry) ==
    LET codeLines == SplitLines(source)
        Run(language, codeStartLine) ==
            LET commentPrefix == ScriptCommentPrefix(language)
                partitioned ==
                    PartitionCellOptionsMapped(language,
                        JoinLines(SubSeq(codeLines, codeStartLine + 1, Len(codeLines))))
            IN  IF language \notin registry
                THEN ScriptResult(Threw("TypeError", "script", NotCalled, 0), language, row,
                                  NotInvoked)
                ELSE IF partitioned.mappedYaml = Undefined
                THEN ScriptResult(YamlEntryWithoutCode, language, row,
                                  Invoked(SubSeq(line, Len(commentPrefix) + 1, Len(line)),
                                          row - codeStartLine, column - Len(commentPrefix),
                                          commentPrefix))
                ELSE ScriptResult(ReturnedFalse("script", 0), language, row, NotInvoked)
    IN  IF declared = Undefined
        THEN IF Len(codeLines) < 2 \/ HeaderLanguage(codeLines[1]) = Undefined
             THEN ScriptResult(ReturnedFalse("script", 0), Undefined, row, NotInvoked)
             ELSE Run(HeaderLanguage(codeLines[1]), 1)
        ELSE Run(declared, 0)

\* The cells core.breakQuartoMd hands back: front matter ("raw"), prose
\* ("markdown"), a language cell, or a cell of a kind the dispatcher does not
\* know; source is the cell's text and diagnostics is what the validator has
\* to say about the cell's YAML.
Cell(type, source, diagnostics) ==
    [cell_type |-> type, source |-> source, diagnostics |-> diagnostics]

OtherKinds == {"math"}

\* cell.cell_type.language
CellLanguage(cell) ==
    IF cell.cell_type \in {"raw", "markdown"} \cup OtherKinds THEN Undefined
    ELSE cell.cell_type

IsDispatched(cell) == cell.cell_type = "raw" \/ CellLanguage(cell) # Undefined

CellSizeContentOnly(cell) == Len(SplitLines(cell.source))

CellSize(cell) ==
    Len(SplitLines(cell.source))
        + (IF cell.cell_type # "raw" /\ cell.cell_type # "markdown" THEN 2 ELSE 0)

\* The loop over result.cells: the first cell whose lines, added to the
\* lines so far, pass position.row; found is 0 when there is none.
RECURSIVE FindCell(_, _, _, _)
FindCell(cells, i, linesSoFar, row) ==
    IF i > Len(cells) THEN [found |-> 0, linesSoFar |-> linesSoFar]
    ELSE IF CellSize(cells[i]) + linesSoFar > row
    THEN [found |-> i, linesSoFar |-> linesSoFar]
    ELSE FindCell(cells, i + 1, linesSoFar + CellSize(cells[i]), row)

NoScript(outcome) == [outcome |-> outcome, script |-> NotInScript]

\* automationFromGoodParseMarkdown(kind, context) for kind = "completions"
MarkdownCompletions(cells, line, row, column, schema, registry) ==
    LET OnCell(at) ==
            LET Dispatch(foundCell) ==
                    IF foundCell.cell_type = "raw"
                    THEN [to |-> "yaml", cell |-> at.found,
                          run |-> NoScript(AutomationCompletionsYAML(
                                      Context(line, foundCell.source, row, column, schema, "")))]
                    ELSE IF CellLanguage(foundCell) # Undefined
                    THEN [to |-> "script", cell |-> at.found,
                          run |-> AutomationFromGoodParseScript(
                                      CellLanguage(foundCell), foundCell.source, line,
                                      row - (at.linesSoFar + 1), column, registry)]
                    ELSE IF foundCell.cell_type = "markdown"
                    THEN [to |-> "none", cell |-> at.found,
                          run |-> NoScript(ReturnedFalse("markdown", 0))]
                    ELSE [to |-> "none", cell |-> at.found,
                          run |-> NoScript(Threw("Error", "markdown", NotCalled, 0))]
            IN  IF at.found = 0
                THEN [to |-> "none", cell |-> 0, run |-> NoScript(ReturnedFalse("markdown", 0))]
                ELSE Dispatch(cells[at.found])
    IN  OnCell(FindCell(cells, 1, 0, row))

\* automationFromGoodParseMarkdown(kind, context) for kind = "validation":
\* lints.push(...promise) raises a TypeError at the first front-matter or
\* language cell, after the call that made the promise has started.
MarkdownValidation(cells) ==
    LET hit == {i \in 1..Len(cells) : IsDispatched(cells[i])}
        first == CHOOSE i \in hit : \A j \in hit : i <= j
    IN  IF hit = {}
        THEN [delivered |-> Delivered("lints", <<>>, <<>>, "none"), dispatched |-> <<>>]
        ELSE [delivered |-> Delivered("threw", <<>>, <<>>, "TypeError"),
              dispatched |-> <<first>>]

(***************************************************************************)
(* One editor request: getCompletions or getLint                           *)
(***************************************************************************)
Cursor(text, row, column) == [code |-> text, row |-> row, column |-> column]

\* The documents and cursors of the requests on a YAML file. Every text the
\* reparse search hands to the parser for them is one of ParsedDocs or is
\* malformed.
YamlCursors ==
    {Cursor("a:\n  b: 1\n  ", 2, 2),
     Cursor("a:\n  ", 1, 2),
     Cursor("x\n  ", 1, 2),
     Cursor("a: 1", 0, 4),
     Cursor("a:", 0, 2),
     Cursor("a: [", 0, 4),
     Cursor("a: 'x'", 0, 6),
     Cursor("x: [a, b]", 0, 9),
     Cursor("- a\n- b", 1, 3),
     Cursor("---\na:\n---", 0, 3),
     Cursor("---\na:\n---", 1, 2),
     Cursor("---\na:\n---", 2, 3),
     Cursor("a: 1\n---", 1, 3),
     Cursor("---\na: 1", 0, 0),
     Cursor("---\na: 1", 1, 4)}

SchemaAString == ObjectSchema(<<Prop(StrA, StringSchema)>>)
SchemaABoolean == ObjectSchema(<<Prop(StrA, BooleanSchema), Prop(StrB, SchemaAB)>>)

RequestSchemas == {SchemaAB, SchemaAString, SchemaABoolean, SchemaArray, SchemaObjectAllOf}

\* What validator.validateParse returns, as names of diagnostics.
DiagnosticLists == {<<>>, <<"d1">>, <<"d2", "d1">>}

\* The cells of the markdown documents; front matter opens its document.
CellLists ==
    {<<>>,
     <<Cell("markdown", "t", <<>>)>>,
     <<Cell("raw", "---\na:\n---", <<"d1">>)>>,
     <<Cell("raw", "---\na:\n---", <<>>), Cell("markdown", "t", <<>>),
       Cell("r", "#| a: 1\nx", <<"d1">>)>>,
     <<Cell("markdown", "t", <<>>), Cell("python", "#| a: 1", <<"d2", "d1">>),
       Cell("r", "x", <<"d1">>)>>,
     <<Cell("markdown", "t\nu", <<>>), Cell("c", "/*| a: 1 */", <<>>),
       Cell("sas", "*| a: 1 ;", <<>>), Cell("zig", "#| a: 1", <<>>)>>,
     <<Cell("math", "x", <<>>), Cell("markdown", "t\nu", <<>>), Cell("r", "#| a: 1", <<>>)>>,
     <<Cell("markdown", "t", <<>>), Cell("math", "x", <<>>)>>}

\* The document breakQuartoMd cut into the cells: a cell that is neither
\* front matter nor prose stands between two delimiter lines.
RECURSIVE DocumentLines(_)
DocumentLines(cells) ==
    IF cells = <<>> THEN <<>>
    ELSE (IF Head(cells).cell_type \in {"raw", "markdown"}
          THEN SplitLines(Head(cells).source)
          ELSE IF Head(cells).cell_type \in OtherKinds
          THEN <<"$$">> \o SplitLines(Head(cells).source) \o <<"$$">>
          ELSE <<"~~~{" \o Head(cells).cell_type \o "}">>
                   \o SplitLines(Head(cells).source) \o <<"~~~">>)
             \o DocumentLines(Tail(cells))

LineAt(lines, row) == IF row \in 0..(Len(lines) - 1) THEN lines[row + 1] ELSE ""

\* The languages of the script requests: with a one-part comment, with a
\* two-part comment, and without an entry in kLangCommentChars.
ScriptLanguages == {"r", "scala", "c", "sas", "zig"}

ScriptSources == {"#| a: 1\nx", "~~~{r}\n#| a: 1", "~~~{c}\n/*| a: 1 */", "x", "/*| a: 1 */\ny"}

\* What schemas.languages may hold an entry for.
Registries == {Languages, Languages \cup ScriptLanguages}

Columns == {0, 4, 7}

NoTrace ==
    [via |-> "none", located |-> NotCalled, parses |-> 0, inside |-> Inside("none", "none", FALSE, 0),
     dispatched |-> <<>>, to |-> "none", cell |-> 0, script |-> NotInScript]

NotRequested ==
    [filetype |-> "none", kind |-> "none", context |-> Context("", "", 0, 0, NoSchema, ""),
     diagnostics |-> <<>>, cells |-> <<>>, language |-> Undefined, registry |-> {},
     delivered |-> NotDelivered, trace |-> NoTrace]

RIdle == req = NotRequested

\* The editor's context: a YAML file with its cursor and the schema
\* getAutomation picks for it, or a markdown document with its cells.
RInit ==
    \/ \E c \in YamlCursors, s \in RequestSchemas, d \in DiagnosticLists :
          req = [NotRequested EXCEPT
                    !.filetype = "yaml",
                    !.context = Context(SplitLines(c.code)[c.row + 1], c.code, c.row,
                                        c.column, s, ""),
                    !.diagnostics = d]
    \/ \E cells \in CellLists, column \in Columns, s \in {SchemaAB, SchemaAString},
          registry \in Registries :
          \E row \in 0..Len(DocumentLines(cells)) :
              req = [NotRequested EXCEPT
                        !.filetype = "markdown",
                        !.cells = cells,
                        !.registry = registry,
                        !.context = Context(LineAt(DocumentLines(cells), row), "", row,
                                            column, s, "")]
    \/ \E source \in ScriptSources, language \in ScriptLanguages \cup {Undefined},
          column \in Columns, registry \in Registries :
          \E row \in 0..(Len(SplitLines(source)) - 1) :
              req = [NotRequested EXCEPT
                        !.filetype = "script",
                        !.language = language,
                        !.registry = registry,
                        !.context = Context(SplitLines(source)[row + 1], source, row, column,
                                            NoSchema, "")]

\* getCompletions(context) on a YAML file, through getAutomation,
\* automationFileTypeDispatch and automationFromGoodParseYAML.
GetCompletionsYaml ==
    /\ req.filetype = "yaml"
    /\ req.kind = "none"
    /\ LET Settled(outcome) ==
               [req EXCEPT
                   !.kind = "completions",
                   !.delivered = DeliverCompletions(outcome),
                   !.trace = [NoTrace EXCEPT !.via = outcome.via,
                                             !.located = outcome.located,
                                             !.parses = outcome.parses]]
       IN  req' = Settled(AutomationCompletionsYAML(req.context))
    /\ UNCHANGED outsideReq

\* getLint(context) on a YAML file.
GetLintYaml ==
    /\ req.filetype = "yaml"
    /\ req.kind = "none"
    /\ LET Settled(validation) ==
               [req EXCEPT
                   !.kind = "validation",
                   !.delivered = DeliverValidation(validation.handed),
                   !.trace = [NoTrace EXCEPT !.inside = validation.inside]]
       IN  req' = Settled(ValidationFromGoodParseYAML(FenceStep("validation",
                                                                req.context).ctx))
    /\ UNCHANGED outsideReq

\* getLint(context) on a markdown document.
GetLintMarkdown ==
    /\ req.filetype = "markdown"
    /\ req.kind = "none"
    /\ LET r == MarkdownValidation(req.cells)
       IN  req' = [req EXCEPT
                      !.kind = "validation",
                      !.delivered = r.delivered,
                      !.trace = [NoTrace EXCEPT !.dispatched = r.dispatched]]
    /\ UNCHANGED outsideReq

\* getCompletions(context) on a markdown document.
GetCompletionsMarkdown ==
    /\ req.filetype = "markdown"
    /\ req.kind = "none"
    /\ LET Settled(dispatch) ==
               [req EXCEPT
                   !.kind = "completions",
                   !.delivered = DeliverCompletions(dispatch.run.outcome),
                   !.trace = [NoTrace EXCEPT !.via = dispatch.run.outcome.via,
                                             !.located = dispatch.run.outcome.located,
                                             !.parses = dispatch.run.outcome.parses,
                                             !.to = dispatch.to,
                                             !.cell = dispatch.cell,
                                             !.script = dispatch.run.script]]
       IN  req' = Settled(MarkdownCompletions(req.cells, req.context.line, req.context.row,
                                              req.context.column, req.context.schema,
                                              req.registry))
    /\ UNCHANGED outsideReq

\* getCompletions(context) on a script.
GetCompletionsScript ==
    /\ req.filetype = "script"
    /\ req.kind = "none"
    /\ LET Settled(run) ==
               [req EXCEPT
                   !.kind = "completions",
                   !.delivered = DeliverCompletions(run.outcome),
                   !.trace = [NoTrace EXCEPT !.via = run.outcome.via,
                                             !.to = "script",
                                             !.script = run.script]]
       IN  req' = Settled(AutomationFromGoodParseScript(req.language, req.context.code,
                                                        req.context.line, req.context.row,
                                                        req.context.column, req.registry))
    /\ UNCHANGED outsideReq

RNext ==
    \/ GetCompletionsYaml
    \/ GetLintYaml
    \/ GetLintMarkdown
    \/ GetCompletionsMarkdown
    \/ GetCompletionsScript

InitQueue == QInit /\ PIdle /\ NIdle /\ GIdle /\ LIdle /\ RIdle /\ WIdle /\ TIdle
NextQueue == QNext
SpecQueue == InitQueue /\ [][NextQueue]_vars

\* The event loop runs the continuation of every promise that settles: a
\* request whose schemas arrive goes on, a function that does not stall
\* finishes, and a settled queue item is released.
\* The requests of the fair specification: validation requests for a yaml
\* file and for a script cell (two queues), and completion requests for the
\* yaml file.
NextQueueFair ==
    \/ \E c \in {YamlContext("yml"), ScriptContext("r")}, s \in Stalls :
          Issue("validation", c, s)
    \/ \E s \in Stalls : Issue("completions", YamlContext("yml"), s)
    \/ \E r \in 1..MaxReq : EnterValidation(r)
    \/ \E r \in 1..MaxReq : EnterCompletions(r)
    \/ \E r \in 1..MaxReq, o \in {"returned", "threw"} : FinishFun(r, o)
    \/ \E n \in SchemaNames : QueueRelease(n)

SpecQueueFair ==
    /\ InitQueue /\ [][NextQueueFair]_vars
    /\ \A r \in 1..MaxReq : WF_vars(EnterValidation(r))
    /\ \A r \in 1..MaxReq : WF_vars(EnterCompletions(r))
    /\ \A r \in 1..MaxReq : WF_vars(\E o \in {"returned", "threw"} : FinishFun(r, o))
    /\ \A n \in SchemaNames : WF_vars(QueueRelease(n))

InitParse == PInit /\ QInit /\ NIdle /\ GIdle /\ LIdle /\ RIdle /\ WIdle /\ TIdle
NextParse == PNext
SpecParse == InitParse /\ [][NextParse]_vars

InitNav == NInit /\ QInit /\ PIdle /\ GIdle /\ LIdle /\ RIdle /\ WIdle /\ TIdle
NextNav == NNext
SpecNav == InitNav /\ [][NextNav]_vars

InitGen == GInit /\ QInit /\ PIdle /\ NIdle /\ LIdle /\ RIdle /\ WIdle /\ TIdle
NextGen == GNext
SpecGen == InitGen /\ [][NextGen]_vars

InitLoc == LInit /\ QInit /\ PIdle /\ NIdle /\ GIdle /\ RIdle /\ WIdle /\ TIdle
NextLoc == LNext
SpecLoc == InitLoc /\ [][NextLoc]_vars

\* The walk is straight-line code: a turn that can be taken is taken.
InitWalk == WInit /\ QInit /\ PIdle /\ NIdle /\ GIdle /\ LIdle /\ RIdle /\ TIdle
NextWalk == WNext
SpecWalk == InitWalk /\ [][NextWalk]_vars /\ WF_vars(NextWalk)

InitTs == TInit /\ QInit /\ PIdle /\ NIdle /\ GIdle /\ LIdle /\ RIdle /\ WIdle
NextTs == TNext
SpecTs == InitTs /\ [][NextTs]_vars

InitReq == RInit /\ QInit /\ PIdle /\ NIdle /\ GIdle /\ LIdle /\ WIdle /\ TIdle
NextReq == RNext
SpecReq == InitReq /\ [][NextReq]_vars

(***************************************************************************)
(* Claims about the validator cache and the per-schema queue               *)
(***************************************************************************)
Started(r) == reqs[r].st \in {"running", "finished", "done"}
Completed(r) == reqs[r].st \in {"finished", "done"}
Handed(r) == reqs[r].validator # NoValidator
ConstructionsFor(n) == {i \in 1..Len(constructed) : constructed[i].schemaName = n}

\* C1: for every schema name a validator is constructed at most once; every
\* request naming that schema that was handed a validator holds the instance
\* the cache holds for the name; and a cache entry, once set, is never removed
\* or replaced by any step.
C1_ConstructedOnceAndKept ==
    /\ [](/\ \A n \in SchemaNames : Cardinality(ConstructionsFor(n)) <= 1
          /\ \A r \in 1..MaxReq :
                Handed(r) => reqs[r].validator = yamlValidators[reqs[r].schemaName])
    /\ [][\A n \in SchemaNames :
            yamlValidators[n] # NoValidator => yamlValidators'[n] = yamlValidators[n]]_vars

\* C1 witness: two requests naming the same schema were both handed a
\* validator, the second one after the first had finished.
C1_Witness ==
    \E r, s \in 1..MaxReq :
        /\ r < s
        /\ reqs[r].schemaName = reqs[s].schemaName
        /\ reqs[r].st = "done"
        /\ Handed(r) /\ Handed(s)

\* C2 (as claimed): of two requests (completion or validation) naming the same
\* schema, the one requested later has not started processing while the one
\* requested earlier has not completed.
C2_AllRequestsSerialized ==
    \A r, s \in 1..MaxReq :
        (/\ r < s
         /\ reqs[r].st # "new"
         /\ reqs[r].schemaName = reqs[s].schemaName
         /\ Started(s))
            => Completed(r)

\* Request r reached the queue (called queue.enqueue) before request s.
EnqueuedBefore(r, s) ==
    \E i, j \in 1..Len(enqueued) : i < j /\ enqueued[i] = r /\ enqueued[j] = s

\* C2 (amended): of two validation requests naming the same schema, the one
\* that reached the queue later has not started processing while the one that
\* reached it earlier has not completed.
C2_ValidationsSerialized ==
    \A r, s \in 1..MaxReq :
        (/\ reqs[r].kind = "validation" /\ reqs[s].kind = "validation"
         /\ reqs[r].schemaName = reqs[s].schemaName
         /\ EnqueuedBefore(r, s)
         /\ Started(s))
            => Completed(r)

\* C2 witness: a validation request that was issued first reached the queue
\* second and waits there behind the running validation request for the same
\* schema.
C2_Witness ==
    \E r, s \in 1..MaxReq :
        /\ s < r
        /\ EnqueuedBefore(r, s)
        /\ reqs[r].schemaName = reqs[s].schemaName
        /\ reqs[r].st = "running" /\ reqs[s].st = "queued"

\* No validation request whose function never settles is ahead of request r
\* in the queue of r's schema name.
NoStalledAhead(r) ==
    \A s \in 1..MaxReq :
        (EnqueuedBefore(s, r) /\ reqs[s].schemaName = reqs[r].schemaName)
            => reqs[s].stalls # "parser"

C5_CleanDocumentYieldsOnce ==
    (pc = "done" /\ ParseIsClean(code))
        => /\ yielded = <<[code |-> code, deletions |-> 0]>>
           /\ parseCalls = 1

\* The document does not parse cleanly, and it does once the text of the
\* cursor's line is taken out.
MalformedOnlyOnCursorLine ==
    /\ ~ParseIsClean(code)
    /\ ParseIsClean(NewCode(code, position.row, 0))

CleanCandidateWithin(column) ==
    \E i \in 1..Len(yielded) :
        /\ ParseIsClean(yielded[i].code)
        /\ yielded[i].deletions <= column

\* C6 (as claimed): when the malformed text lies only on the cursor's line, a
\* search that ran to its end yielded a clean candidate with deletions at most
\* the cursor column, for every cursor column, 0 included.
C6_LineLocalErrorAnyColumn ==
    (pc = "done" /\ MalformedOnlyOnCursorLine) => CleanCandidateWithin(position.column)

\* C6 (amended): the same, for every cursor column of at least 1.
C6_LineLocalErrorPositiveColumn ==
    (pc = "done" /\ MalformedOnlyOnCursorLine /\ position.column >= 1)
        => CleanCandidateWithin(position.column)

\* C6 witness: the only clean candidate is the one with the whole line up to
\* the cursor deleted.
C6_Witness ==
    /\ pc = "done"
    /\ MalformedOnlyOnCursorLine
    /\ position.column >= 2
    /\ yielded = <<[code |-> NewCode(code, position.row, 0), deletions |-> position.column]>>

\* C7: in every state of every invocation the deletions of the yielded
\* candidates strictly increase and lie in 0..column, every yielded candidate
\* parses cleanly, and at most column + 1 parses were made; and an invocation
\* that ran to its end after an earlier one that did yields what that one
\* yielded.
C7_FreshFiniteMostFaithfulFirst ==
    /\ \A i \in 1..Len(yielded) :
          /\ yielded[i].deletions \in 0..position.column
          /\ ParseIsClean(yielded[i].code)
          /\ \A j \in 1..Len(yielded) : i < j => yielded[i].deletions < yielded[j].deletions
    /\ parseCalls <= position.column + 1
    /\ (pc = "done" /\ prevYielded.ranToEnd) => yielded = prevYielded.yielded

\* C7 witness: a second invocation ran to its end and yielded several
\* candidates, the last one with the line cut back to column 0.
C7_Witness ==
    /\ pc = "done"
    /\ invocation = 2
    /\ prevYielded.ranToEnd
    /\ Len(yielded) >= 2
    /\ yielded[Len(yielded)].deletions = position.column
    /\ parseCalls = position.column + 1

(***************************************************************************)
(* Claims about the schema navigator                                       *)
(***************************************************************************)
Navigated == navResult.threw # "not-called"

RootRefs(schema) ==
    IF schema.id # ""
    THEN [id \in RefIds |-> IF id = schema.id THEN schema ELSE NoSchema]
    ELSE [id \in RefIds |-> NoSchema]

\* C8 (as claimed): navigating an object schema with a non-empty path gives:
\* when the first segment names a property of the schema, what navigation of
\* the rest of the path gives in that property's subschema; when it names
\* none, is the only segment and is a prefix of a property name, the object
\* schema itself; in every other case nothing, without error. For
\* {a: {b: {type: string}}}, path [a, b] gives exactly the string node and path
\* [a, x] gives nothing.
C8_ObjectNavigation ==
    Navigated =>
        /\ (SchemaType(navSchema) = "object" /\ navPath # <<>>) =>
              IF NamesProperty(navSchema, navPath[1])
              THEN LET rest == Inner(Property(navSchema, navPath[1]), 1,
                                     RootRefs(navSchema), {}, navPath)
                   IN  navResult.nodes = rest.nodes /\ navResult.threw = rest.threw
              ELSE /\ navResult.threw = "none"
                   /\ navResult.nodes =
                        IF /\ Len(navPath) = 1
                           /\ \E i \in 1..Len(navSchema.properties) :
                                 IsPrefix(navPath[1], navSchema.properties[i].name)
                        THEN <<navSchema>>
                        ELSE <<>>
        /\ (navSchema = SchemaAB /\ navPath = <<StrA, StrB>>) =>
              (navResult.threw = "none" /\ navResult.nodes = <<StringSchema>>)
        /\ (navSchema = SchemaAB /\ navPath = <<StrA, StrX>>) =>
              (navResult.threw = "none" /\ navResult.nodes = <<>>)

\* C9 (as claimed): a navigation that met a reference to an identity not
\* visited before raised no error.
C9_UnresolvedReferenceIsNoMatch ==
    (Navigated /\ "unresolved-ref" \in navResult.events) => navResult.threw = "none"

\* C10 (as claimed): a navigation that reached an allOf node, with path
\* segments left or as the node the path ends at, raised an error.
C10_AllOfAlwaysRaises ==
    (Navigated /\ navResult.events \cap {"allOf-with-path-left", "allOf-at-path-end"} # {})
        => navResult.threw # "none"

\* C10 (amended): a navigation that reached an allOf node while path segments
\* were left raised an error.
C10_AllOfWithPathLeftRaises ==
    (Navigated /\ "allOf-with-path-left" \in navResult.events) => navResult.threw = "allOf"

\* C10 witness: an allOf node below an anyOf branch and a property was reached
\* with a segment left, and the navigation raised.
C10_Witness ==
    /\ Navigated
    /\ navSchema = SchemaAnyOfAllOf
    /\ navPath = <<StrA, StrB>>
    /\ navResult.threw = "allOf"

(***************************************************************************)
(* Claims about the completion generator                                   *)
(***************************************************************************)
CountIn(list, item) == Cardinality({i \in 1..Len(list) : list[i] = item})

\* a comes no later than b in lexicographic order.
LexLeq(a, b) ==
    \/ IsPrefix(a, b)
    \/ \E k \in 1..Min(Len(a), Len(b)) :
          /\ SubSeq(a, 1, k - 1) = SubSeq(b, 1, k - 1)
          /\ CharRank(SubSeq(a, k, k)) < CharRank(SubSeq(b, k, k))

ValuesOf(list) == [i \in 1..Len(list) |-> list[i].value]

\* C11: the completion generator returns exactly the candidates whose text
\* starts with the word, each as often as it was given, in ascending
\* lexicographic order, and leaves the list it was given as it was; word "w"
\* with candidates width, weight, height returns weight, width.
C11_FilteredSortedUnmutated ==
    gen.called =>
        LET out == gen.result.completions
        IN  /\ \A c \in CandidateItems :
                  CountIn(out, c) =
                      IF IsPrefix(gen.word, c.value) THEN CountIn(gen.candidates, c) ELSE 0
            /\ \A i, j \in 1..Len(out) : i < j => LexLeq(out[i].value, out[j].value)
            /\ gen.given = gen.candidates
            /\ (/\ ValuesOf(gen.candidates) = <<StrWidth, StrWeight, StrHeight>>
                /\ gen.word = StrW)
               => ValuesOf(out) = <<StrWeight, StrWidth>>

C11_Witness ==
    /\ gen.called
    /\ ValuesOf(gen.candidates) = <<StrWidth, StrWeight, StrHeight>>
    /\ gen.word = StrW
    /\ ValuesOf(gen.result.completions) = <<StrWeight, StrWidth>>

(***************************************************************************)
(* Claims about the cursor locators                                        *)
(***************************************************************************)
CursorOffset == RowColToIndex(loc.lines, loc.row, loc.column)

\* Spaces only, and every line indented by a multiple of one step of two.
UnambiguousIndentation(lines) ==
    \A i \in 1..Len(lines) :
        /\ IndexOf(lines[i], "\t") = -1
        /\ GetIndent(lines[i]) % 2 = 0

BothLocated ==
    /\ loc.structural.kind \notin {"not-called"}
    /\ loc.indentation.kind \notin {"not-called"}

\* C14: on a document that parses cleanly and is indented unambiguously, the
\* structural locator and the indentation locator return the same path for
\* every cursor position.
C14_LocatorsAgree ==
    (BothLocated /\ UnambiguousIndentation(loc.lines))
        => /\ loc.structural.kind = "path"
           /\ loc.indentation.kind = "path"
           /\ loc.structural.path = loc.indentation.path

RECURSIVE Subnodes(_)
Subnodes(a) ==
    {a} \cup UNION {Subnodes(a.components[i]) : i \in 1..Len(a.components)}

InRange(c, pos) == c.start <= pos /\ pos <= c.end

\* The pairs of a mapping node, numbered from 0.
PairCount(n) == Len(n.components) \div 2
KeyOf(n, i) == n.components[2 * i + 1]
ValueOf(n, i) == n.components[2 * i + 2]

MappingRule(n, pos) ==
    LET r == LocateCursor(n, pos)
        hit == {i \in 0..(PairCount(n) - 1) :
                   InRange(KeyOf(n, i), pos) \/ InRange(ValueOf(n, i), pos)}
        first == CHOOSE i \in hit : \A j \in hit : i <= j
        inner == LocateCursor(ValueOf(n, first), pos)
    IN  IF hit = {}
        THEN r = PathWithError(<<>>)
        ELSE IF InRange(KeyOf(n, first), pos)
        THEN r = PathResult(<<KeyOf(n, first).result>>)
        ELSE IF inner.kind = "threw"
        THEN r.kind = "threw"
        ELSE r = [inner EXCEPT !.path = <<KeyOf(n, first).result>> \o inner.path]

\* Outside a mapping, withError can only come from a component that holds
\* the offset.
NoErrorOfItsOwn(n, pos) ==
    LocateCursor(n, pos).withError =>
        \E i \in 1..Len(n.components) :
            /\ InRange(n.components[i], pos)
            /\ LocateCursor(n.components[i], pos).withError

IsMapping(n) == n.kind \in {"block_mapping", "flow_mapping"}
IsSequence(n) == n.kind \in {"block_sequence", "flow_sequence"}

\* C19: in a mapping node the structural locator scans the pairs in order; an
\* offset within a key gives a path ending with that key, an offset within a
\* value gives the location inside the value prefixed by its key, and when
\* no pair holds the offset the path so far comes back with withError set;
\* withError is set in no other case and the path runs root to leaf.
C19_MappingLocate ==
    loc.structural.kind # "not-called" =>
        /\ loc.structural = LocateCursor(loc.annotation, CursorOffset)
        /\ \A n \in Subnodes(loc.annotation) :
              IF IsMapping(n) THEN MappingRule(n, CursorOffset)
              ELSE NoErrorOfItsOwn(n, CursorOffset)

C19_Witness ==
    /\ loc.structural.kind = "path"
    /\ IsMapping(loc.annotation)
    /\ Len(loc.structural.path) = 2
    /\ \E i \in 0..(PairCount(loc.annotation) - 1) :
          /\ InRange(ValueOf(loc.annotation, i), CursorOffset)
          /\ IsMapping(ValueOf(loc.annotation, i))

SequenceRule(n, pos) ==
    LET r == LocateCursor(n, pos)
        m == Len(n.components)
        at == {i \in 0..(m - 1) :
                  InRange(n.components[i + 1], pos) \/ n.components[i + 1].start > pos}
        first == CHOOSE i \in at : \A j \in at : i <= j
        inner == LocateCursor(n.components[first + 1], pos)
    IN  /\ r.kind = "path"
        /\ m > 0 =>
              IF pos < n.components[1].start THEN r.path = <<"0">>
              ELSE IF pos > n.components[m].end THEN r.path = <<IndexText(m - 1)>>
              ELSE /\ inner.kind = "path"
                   /\ r.path = <<IndexText(first)>> \o inner.path

\* C20: in a sequence node the structural locator recurses into the first
\* item that holds the offset or starts after it, with that index prefixed;
\* before the first item, past the last one or in an empty sequence it
\* returns the path so far with the nearest index, and raises no error.
C20_SequenceLocate ==
    loc.structural.kind # "not-called" =>
        \A n \in Subnodes(loc.annotation) :
            (IsSequence(n) /\ InRange(n, CursorOffset)) => SequenceRule(n, CursorOffset)

(***************************************************************************)
(* Completion and validation requests from end to end                      *)
(***************************************************************************)
\* The completion request got as far as asking for candidates and had none
\* to offer: the indentation walk gave no path, or the schemas reached by
\* the path leave no candidate that starts with the word.
SoftNonResult ==
    /\ req.kind = "completions"
    /\ req.trace.via \in {"indentation", "structural"}
    /\ \/ req.trace.located.kind = "undefined"
       \/ /\ req.trace.located.kind = "path"
          /\ Completions(req.context.schema, req.trace.located,
                         WordOf(req.context.line), 0, "") = Returned(NoCompletions)

\* C12: a completion request with a soft non-result (no path from the
\* indentation walk, no schema for the path, no candidate left for the word)
\* settles with the no-result sentinel and never with a raised error, on the
\* blank-line path and on the reparse path.
C12_SoftNonResultIsSentinel == SoftNonResult => req.delivered.kind = "null"

BlankLastLineRequest ==
    /\ req.kind = "completions"
    /\ req.context.code = JoinLines(DocBlankLast.lines)
    /\ req.context.row = 2
    /\ req.context.column = 2

KeyCompletionsUnder(schema, path) ==
    SortCompletions(SelectSeq(RawCandidates(NavigateSchema(schema, path).nodes, 2, ""),
                              LAMBDA c : c.type = "key"))

\* C13: for the document "a:\n  b: 1\n  " with the cursor at the end of the
\* blank last line, the request finds the path <<"a">> by the indentation
\* walk without any reparse, and offers exactly the key completions of the
\* schema under a (none of them: the no-result sentinel).
C13_BlankLastLine ==
    BlankLastLineRequest =>
        /\ req.trace.via = "indentation"
        /\ req.trace.parses = 0
        /\ req.trace.located = PathResult(<<StrA>>)
        /\ LET keys == KeyCompletionsUnder(req.context.schema, <<StrA>>)
           IN  IF keys = <<>> THEN req.delivered.kind = "null"
               ELSE /\ req.delivered.kind = "completions"
                    /\ req.delivered.completions = keys

\* The document of the request holds a node the builder has no rule for,
\* and the request gets as far as building the annotation of the document.
BuilderMeetsUnknownKind ==
    /\ req.filetype = "yaml"
    /\ req.kind \in {"completions", "validation"}
    /\ Len(Trim(req.context.line)) # 0
    /\ LET stripped == FenceStep("validation", req.context).ctx.code
       IN  /\ ParseTree(stripped).type # "ERROR"
           /\ BuildAnnotated(ParseTree(stripped)) = UnknownKind(ParseTree(stripped))

\* C15: when the builder meets a node kind it has no rule for, the request
\* settles with the builder's error as a raised fault, for a completion
\* request and for a validation request alike.
C15_UnknownKindReachesCaller ==
    BuilderMeetsUnknownKind =>
        /\ req.delivered.kind = "threw"
        /\ req.delivered.what = UnknownKind(CstNull).result

\* The cursor row of the request is the row of a leading or trailing
\* front-matter fence of its YAML document.
OnFenceRow ==
    /\ req.filetype = "yaml"
    /\ req.kind \in {"completions", "validation"}
    /\ \/ StartsWith(req.context.code, "---") /\ req.context.row = 0
       \/ /\ EndsWith(req.context.code, "---")
          /\ req.context.row = Len(SplitLines(req.context.code)) - 1

C17_DiagnosticsDelivered ==
    (req.filetype = "yaml" /\ req.kind = "validation" /\ req.trace.inside.validated) =>
        /\ req.delivered.kind = "lints"
        /\ req.delivered.lints = req.diagnostics

RECURSIVE DispatchedCells(_, _)
DispatchedCells(cells, i) ==
    IF i > Len(cells) THEN <<>>
    ELSE (IF IsDispatched(cells[i]) THEN <<i>> ELSE <<>>) \o DispatchedCells(cells, i + 1)

RECURSIVE DiagnosticsOf(_, _)
DiagnosticsOf(cells, order) ==
    IF order = <<>> THEN <<>>
    ELSE cells[Head(order)].diagnostics \o DiagnosticsOf(cells, Tail(order))

\* C18: a validation request on a markdown document dispatches every
\* front-matter cell and every language cell in document order, and delivers
\* the concatenation of the diagnostics of those cells.
C18_EveryCellDispatched ==
    (req.filetype = "markdown" /\ req.kind = "validation") =>
        /\ req.trace.dispatched = DispatchedCells(req.cells, 1)
        /\ req.delivered.kind = "lints"
        /\ req.delivered.lints = DiagnosticsOf(req.cells, DispatchedCells(req.cells, 1))

(***************************************************************************)
(* Claims about the annotated tree                                         *)
(***************************************************************************)
SetOf(seq) == {seq[i] : i \in 1..Len(seq)}

\* The block_mapping nodes of the document and their ERROR children.
MappingNodes == SetOf(CstMappings(loc.tree))

ErrorChildren == {c \in UNION {SetOf(m.children) : m \in MappingNodes} : c.type = "ERROR"}

ObjectAt(s, e) ==
    CHOOSE o \in SetOf(loc.objects) : o.start = s /\ o.end = e

MappingOf(c) ==
    CHOOSE m \in MappingNodes :
        \E i \in 1..Len(m.children) : m.children[i] = c

AnnotationAt(s, e, kind) ==
    CHOOSE n \in Subnodes(loc.annotation) : n.start = s /\ n.end = e /\ n.kind = kind

ErrorComponents(c) ==
    LET n == AnnotationAt(MappingOf(c).startIndex, MappingOf(c).endIndex, "block_mapping")
    IN  \E i \in 0..(PairCount(n) - 1) :
            /\ KeyOf(n, i) = Annotated("ERROR", c.startIndex, c.endIndex, c.text, <<>>)
            /\ ValueOf(n, i) = Annotated("<<EMPTY>>", c.endIndex, c.endIndex, "null", <<>>)

\* C21: for an ERROR child of a mapping, the result of the built mapping
\* holds the child's text with the error marker as its value, and the
\* components hold a key node for the text followed by an empty value node at
\* the child's end.
C21_ErrorPairMarked ==
    (loc.annotation # NotBuilt /\ ~IsThrow(loc.annotation)) =>
        \A c \in ErrorChildren :
            /\ ErrorComponents(c)
            /\ \E k \in 1..Len(ObjectAt(MappingOf(c).startIndex, MappingOf(c).endIndex).result) :
                   ObjectAt(MappingOf(c).startIndex, MappingOf(c).endIndex).result[k] =
                       [key |-> c.text, value |-> "<<ERROR>>"]

\* The components of a node follow one another in the source, inside the
\* node's range (an empty node sits at a single offset and overlaps nothing).
ComponentsInOrder(n) ==
    /\ \A i \in 1..Len(n.components) :
           n.start <= n.components[i].start /\ n.components[i].end <= n.end
    /\ \A i \in 1..(Len(n.components) - 1) :
           n.components[i].end <= n.components[i + 1].start

\* The components of a mapping are the key and the value of each child of the
\* block_mapping node, child after child.
AlternatingPairs(n) ==
    \E m \in MappingNodes :
        /\ m.startIndex = n.start /\ m.endIndex = n.end
        /\ Len(n.components) = 2 * Len(m.children)
        /\ \A i \in 1..Len(m.children) :
               /\ m.children[i].startIndex <= KeyOf(n, i - 1).start
               /\ KeyOf(n, i - 1).end <= ValueOf(n, i - 1).start
               /\ ValueOf(n, i - 1).end <= m.children[i].endIndex
               /\ KeyOf(n, i - 1).components = <<>>

\* C22: in every annotated tree the builder produces, every node has
\* start <= end, the ranges of its components do not overlap and lie within
\* its range, and the components of a mapping are key node, value node for
\* each pair in source order (error pairs and truncated pairs included).
C22_WellFormedAnnotation ==
    (loc.annotation # NotBuilt /\ ~IsThrow(loc.annotation) /\ loc.annotation # AnnotatedNull) =>
        \A n \in Subnodes(loc.annotation) :
            /\ n.start <= n.end
            /\ ComponentsInOrder(n)
            /\ IsMapping(n) => AlternatingPairs(n)

C22_Witness ==
    /\ loc.annotation # NotBuilt
    /\ ~IsThrow(loc.annotation)
    /\ \E n \in Subnodes(loc.annotation) :
           /\ IsMapping(n)
           /\ n # loc.annotation
           /\ \E i \in 0..(PairCount(n) - 1) :
                  KeyOf(n, i).kind = "ERROR" /\ ValueOf(n, i).kind = "<<EMPTY>>"

(***************************************************************************)
(* Claims about the combinators of the schema navigator                    *)
(***************************************************************************)
\* The combinator node the navigation from the root comes to, and the index
\* it comes with: the root itself, or the property the first segment names.
CombinatorReached ==
    IF SchemaType(navSchema) \in {"anyOf", "oneOf"}
    THEN [node |-> navSchema, index |-> 0]
    ELSE IF /\ SchemaType(navSchema) = "object"
            /\ navPath # <<>>
            /\ NamesProperty(navSchema, navPath[1])
            /\ SchemaType(Property(navSchema, navPath[1])) \in {"anyOf", "oneOf"}
    THEN [node |-> Property(navSchema, navPath[1]), index |-> 1]
    ELSE [node |-> NoSchema, index |-> 0]

\* What navigating the rest of the path gives in branch k, the branches
\* before it having been navigated.
RECURSIVE BranchRefs(_, _, _)
BranchRefs(node, index, k) ==
    IF k = 1 THEN RootRefs(navSchema)
    ELSE Inner(node.alts[k - 1], index, BranchRefs(node, index, k - 1), {}, navPath).refs

BranchResult(node, index, k) ==
    Inner(node.alts[k], index, BranchRefs(node, index, k), {}, navPath)

RECURSIVE UnionFrom(_, _, _)
UnionFrom(node, index, k) ==
    IF k > Len(node.alts) THEN <<>>
    ELSE BranchResult(node, index, k).nodes \o UnionFrom(node, index, k + 1)

NoBranchRaises(node, index) ==
    \A k \in 1..Len(node.alts) : BranchResult(node, index, k).threw = "none"

\* C23: a navigation that comes to a oneOf node with segments left navigates
\* every branch with the rest of the path and gives the result of the one
\* branch whose result is not empty, however many nodes it holds, when there
\* is exactly one such branch, and nothing otherwise.
C23_OneOfExactlyOneBranch ==
    LET at == CombinatorReached
        matching == {k \in 1..Len(at.node.alts) :
                        BranchResult(at.node, at.index, k).nodes # <<>>}
    IN  (/\ Navigated
         /\ SchemaType(at.node) = "oneOf"
         /\ at.index < Len(navPath)
         /\ NoBranchRaises(at.node, at.index)) =>
            /\ navResult.threw = "none"
            /\ navResult.nodes =
                  IF Cardinality(matching) = 1
                  THEN BranchResult(at.node, at.index, CHOOSE k \in matching : TRUE).nodes
                  ELSE <<>>

\* C24 (as claimed): a navigation that comes to an anyOf node, with or without
\* segments left, gives the results of its branches for the rest of the path,
\* one branch after the other with duplicates kept.
C24_AnyOfUnionAlways ==
    LET at == CombinatorReached
    IN  (/\ Navigated
         /\ SchemaType(at.node) = "anyOf"
         /\ NoBranchRaises(at.node, at.index)) =>
            /\ navResult.threw = "none"
            /\ navResult.nodes = UnionFrom(at.node, at.index, 1)

\* C24 (amended): a navigation that comes to an anyOf node with segments left
\* gives the results of its branches for the rest of the path, one branch
\* after the other with duplicates kept; a path that ends at the anyOf node
\* gives the anyOf node itself.
C24_AnyOfUnionWithPathLeft ==
    LET at == CombinatorReached
    IN  (/\ Navigated
         /\ SchemaType(at.node) = "anyOf"
         /\ NoBranchRaises(at.node, at.index)) =>
            /\ navResult.threw = "none"
            /\ navResult.nodes = IF at.index < Len(navPath)
                                  THEN UnionFrom(at.node, at.index, 1)
                                  ELSE <<at.node>>

\* C24 witness: an anyOf node below a property was navigated with a segment
\* left and two of its branches gave a node each.
C24_Witness ==
    /\ Navigated
    /\ navSchema = SchemaObjectAnyOf
    /\ navPath = <<StrA, StrA>>
    /\ Len(navResult.nodes) = 2

(***************************************************************************)
(* Claims about the candidates of the reparse search                       *)
(***************************************************************************)
\* The candidate has the lines of the document, all but the cursor's line as
\* they are.
OnlyCursorLineDiffers(candidate) ==
    /\ Len(candidate.code) = Len(code)
    /\ \A r \in 1..Len(code) : r # position.row + 1 => candidate.code[r] = code[r]
    /\ IsPrefix(candidate.code[position.row + 1], code[position.row + 1])

\* C25 (as claimed): every candidate the search yields has the lines of the
\* document, unchanged but for the cursor's line, which is its prefix of
\* length column - deletions.
C25_CandidateIsPrefixAtColumn ==
    \A i \in 1..Len(yielded) :
        /\ OnlyCursorLineDiffers(yielded[i])
        /\ Len(yielded[i].code[position.row + 1]) = position.column - yielded[i].deletions

\* C25 (amended): every candidate the search yields has the lines of the
\* document, unchanged but for the cursor's line; the candidate with no
\* deletion is the document itself, and in a candidate with deletions the
\* cursor's line is its prefix of length column - deletions, or the whole
\* line when the line is shorter than that.
C25_CandidateIsDocumentOrPrefix ==
    \A i \in 1..Len(yielded) :
        /\ OnlyCursorLineDiffers(yielded[i])
        /\ IF yielded[i].deletions = 0
           THEN yielded[i].code = code
           ELSE Len(yielded[i].code[position.row + 1]) =
                    Min(position.column - yielded[i].deletions, Len(code[position.row + 1]))

\* C25 witness: a candidate with deletions was yielded for a cursor on the
\* first of two lines.
C25_Witness ==
    /\ position.row = 0
    /\ Len(code) = 2
    /\ code[2] # <<>>
    /\ \E i \in 1..Len(yielded) :
           /\ yielded[i].deletions >= 1
           /\ Len(yielded[i].code[position.row + 1]) < Len(code[position.row + 1])

(***************************************************************************)
(* Claims about the indentation tree and the walk                          *)
(***************************************************************************)
IsBlank(l) == Len(Trim(l)) = 0

\* The rows before row i (0-based) that hold a non-blank line.
NonBlankBefore(lines, i) == {j \in 0..(i - 1) : ~IsBlank(lines[j + 1])}

GreatestOf(rows) == CHOOSE j \in rows : \A k \in rows : k <= j

\* The nearest non-blank line before row i with a strictly smaller
\* indentation, or -1.
NearestLesser(lines, i) ==
    LET lesser == {j \in NonBlankBefore(lines, i) :
                      GetIndent(lines[j + 1]) < GetIndent(lines[i + 1])}
    IN  IF lesser = {} THEN -1 ELSE GreatestOf(lesser)

BackPointersRight ==
    walk.pc \in {"walking", "done"} =>
        \A i \in 0..(Len(walk.lines) - 1) :
            IF ~IsBlank(walk.lines[i + 1])
            THEN walk.tree.predecessor[i] = NearestLesser(walk.lines, i)
            ELSE NonBlankBefore(walk.lines, i) # {} =>
                     walk.tree.predecessor[i] =
                         walk.tree.predecessor[GreatestOf(NonBlankBefore(walk.lines, i))]

WalkDescends ==
    (walk.pc = "walking" /\ walk'.pc = "walking" /\ walk.lineNo # -1) =>
        walk'.lineNo < walk.lineNo

\* C26: the back-pointer of every non-blank line is the nearest non-blank
\* line before it with a strictly smaller indentation, or -1; a blank line
\* has the back-pointer of the last non-blank line before it; and the walk of
\* locateFromIndentation goes to ever smaller line numbers and ends.
C26_IndentTreeAndWalk ==
    /\ []BackPointersRight
    /\ [][WalkDescends]_vars
    /\ (walk.pc = "start") ~> (walk.pc = "done")

\* C26 witness: a walk that ended with a path of two keys, over a document
\* with a blank line and a line less indented than the line before it.
C26_Witness ==
    /\ walk.pc = "done"
    /\ Len(walk.result.path) = 2
    /\ \E i \in 1..Len(walk.lines) : IsBlank(walk.lines[i])
    /\ \E i \in 2..Len(walk.lines) :
           /\ ~IsBlank(walk.lines[i])
           /\ GetIndent(walk.lines[i]) < GetIndent(walk.lines[i - 1])

(***************************************************************************)
(* Claims about the markdown and script paths                              *)
(***************************************************************************)
ContentLines(cell) == Len(SplitLines(cell.source))

IsLanguageCell(cell) == CellLanguage(cell) # Undefined

\* Content lines, and two delimiter lines for a language cell.
LanguageCellsCountTwo(cell) == ContentLines(cell) + (IF IsLanguageCell(cell) THEN 2 ELSE 0)

\* Content lines, and two delimiter lines for every cell that is neither
\* front matter nor prose.
DelimitedCellsCountTwo(cell) ==
    ContentLines(cell) + (IF cell.cell_type \in {"raw", "markdown"} THEN 0 ELSE 2)

RECURSIVE LinesBefore(_, _, _)
LinesBefore(Size(_), cells, i) ==
    IF i <= 1 THEN 0 ELSE LinesBefore(Size, cells, i - 1) + Size(cells[i - 1])

\* The first cell whose cumulative line count exceeds the row, 0 if none.
CellOfRow(Size(_), cells, row) ==
    LET over == {i \in 1..Len(cells) : LinesBefore(Size, cells, i + 1) > row}
    IN  IF over = {} THEN 0 ELSE CHOOSE i \in over : \A j \in over : i <= j

MarkdownCompletionSettled == req.filetype = "markdown" /\ req.kind = "completions"

DispatchFollows(Size(_)) ==
    LET OnCell(i) ==
            /\ req.trace.cell = i
            /\ i = 0 => req.trace.to = "none" /\ req.delivered.kind = "null"
            /\ i # 0 =>
                  IF req.cells[i].cell_type = "raw" THEN req.trace.to = "yaml"
                  ELSE IF IsLanguageCell(req.cells[i])
                  THEN /\ req.trace.to = "script"
                       /\ req.trace.script.entered
                       /\ req.trace.script.language = CellLanguage(req.cells[i])
                       /\ req.trace.script.row =
                              req.context.row - LinesBefore(Size, req.cells, i) - 1
                  ELSE IF req.cells[i].cell_type = "markdown"
                  THEN req.trace.to = "none" /\ req.delivered.kind = "null"
                  ELSE req.trace.to = "none" /\ req.delivered.kind = "threw"
    IN  OnCell(CellOfRow(Size, req.cells, req.context.row))

\* C27 (as claimed): a completion request on a markdown document picks the
\* first cell whose cumulative line count exceeds the cursor row, every cell
\* counting its content lines and language cells two more; front matter goes
\* to the YAML path, a language cell to the script path with the row minus
\* the lines before the cell minus one, prose or a row past the last cell
\* gives no result, and any other kind of cell raises a fault.
C27_CellOfCursorRow == MarkdownCompletionSettled => DispatchFollows(LanguageCellsCountTwo)

\* C27 (amended): the same, with two delimiter lines counted for every cell
\* that is neither front matter nor prose, language cell or not.
C27_CellOfCursorRowDelimited ==
    MarkdownCompletionSettled => DispatchFollows(DelimitedCellsCountTwo)

\* C27 witness: the cursor is in a language cell that follows a cell of
\* another kind, and the request went to the script path.
C27_Witness ==
    /\ MarkdownCompletionSettled
    /\ req.trace.to = "script"
    /\ req.trace.cell = 3
    /\ req.cells[1].cell_type \in OtherKinds
    /\ req.trace.script.row = req.context.row - 6

\* The prefix partitionCellOptionsText strips from the option lines of a cell
\* of the language.
StrippedPrefix(language) == OptionCommentPrefix(LangCommentChars(language)[1])

\* C28: whatever the language of the cell (one-part comment, two-part
\* comment, no table entry), the script path invokes the YAML entry point with
\* the cursor column reduced by the length of the option-comment prefix the
\* partitioner strips for that language.
C28_ColumnShiftedByOptionPrefix ==
    (req.kind = "completions" /\ req.trace.script.invoked.called) =>
        req.trace.script.invoked.column =
            req.context.column - Len(StrippedPrefix(req.trace.script.language))

\* Request s waits in the queue of the schema name whose slot request r holds,
\* r's function having failed, and nothing ahead of s stalls.
QueuedBehindFailure(r, s) ==
    /\ reqs[r].st = "finished" /\ reqs[r].outcome = "threw"
    /\ reqs[s].st = "queued"
    /\ QueueKey(reqs[s]) = QueueKey(reqs[r])
    /\ validatorQueues[QueueKey(reqs[r])].current = r
    /\ NoStalledAhead(s)

\* A step that makes or leaves request r failed keeps the validator cached
\* under r's schema name.
FailureKeepsValidator ==
    \A r \in 1..MaxReq :
        (reqs'[r].outcome = "threw" /\ yamlValidators[reqs[r].schemaName] # NoValidator) =>
            yamlValidators'[reqs[r].schemaName] = yamlValidators[reqs[r].schemaName]

\* C29: when the function of a request fails while the request holds the slot
\* of its schema's queue, the slot is released all the same: every request
\* queued behind it for the same schema eventually runs, and the failure
\* neither removes nor replaces the cached validator.
C29_FailureReleasesSlot ==
    /\ \A r, s \in 1..MaxReq : QueuedBehindFailure(r, s) ~> Started(s)
    /\ [][FailureKeepsValidator]_vars

\* C29 witness: a validation request whose function failed has left the
\* queue, and the request that waited behind it runs with the validator the
\* failed request had built.
C29_Witness ==
    \E r, s \in 1..MaxReq :
        /\ EnqueuedBefore(r, s)
        /\ QueueKey(reqs[s]) = QueueKey(reqs[r])
        /\ reqs[r].st = "done" /\ reqs[r].outcome = "threw"
        /\ Started(s)
        /\ reqs[s].validator = reqs[r].validator
        /\ reqs[s].validator = yamlValidators[reqs[s].schemaName]

(***************************************************************************)
(* Claims about the lazy initialisation of the parser                      *)
(***************************************************************************)
\* C30: however the callers of getTreeSitter interleave at its suspension
\* points, a parser handed to a caller has had the YAML grammar set on it, and
\* at most one parser is ever constructed.
C30_ParserReadyAndSingle ==
    /\ \A c \in 1..MaxCallers : ts.callers[c].pc = "done" => ts.callers[c].ready
    /\ Len(ts.instances) <= 1

====
